---- MODULE Spec2Model ----
(***************************************************************************)
(* Model of the HDL AI Proteus pipeline: the text functions of             *)
(* HDLProcessor (extraction, normalisation, identifier rewriting), the     *)
(* compilation orchestrator, the export packager and the /generate         *)
(* request handler.                                                        *)
(*                                                                         *)
(* Text is modelled character by character: a string is a sequence of      *)
(* one-character strings, and every regular expression of the source is    *)
(* an operator that matches the same characters the expression matches.    *)
(***************************************************************************)
EXTENDS Integers, Sequences, FiniteSets, TLC

(***************************************************************************)
(* Characters and character classes (Python re, str patterns).             *)
(***************************************************************************)
UpperChars == <<"A","B","C","D","E","F","G","H","I","J","K","L","M",
                "N","O","P","Q","R","S","T","U","V","W","X","Y","Z">>
LowerChars == <<"a","b","c","d","e","f","g","h","i","j","k","l","m",
                "n","o","p","q","r","s","t","u","v","w","x","y","z">>
DigitChars == {"0","1","2","3","4","5","6","7","8","9"}

Range(f) == {f[i] : i \in DOMAIN f}

UpperSet == Range(UpperChars)

\* the lower-case letter of every upper-case letter
LowerOf == [c \in UpperSet |-> LowerChars[CHOOSE k \in DOMAIN UpperChars : UpperChars[k] = c]]

\* U+017F, LATIN SMALL LETTER LONG S: a letter that str.lower() leaves as it is
\* and that re.IGNORECASE matches with s; a TLA+ string literal cannot hold
\* that character, so it is written as the one-character token "LONG_S"
LongS == "LONG_S"

\* U+0131, LATIN SMALL LETTER DOTLESS I: a letter that str.lower() leaves as it
\* is and that re.IGNORECASE matches with i, written as the token "DOTLESS_I"
DotlessI == "DOTLESS_I"

\* str.lower() on one character
Lower(c) == IF c \in UpperSet THEN LowerOf[c] ELSE c

\* the case folding of re.IGNORECASE on one character
Fold(c) == IF c = LongS THEN "s" ELSE IF c = DotlessI THEN "i" ELSE Lower(c)

\* str.lower() on a string
LowerStr(s) == [i \in 1..Len(s) |-> Lower(s[i])]

\* the characters of \w
WordChars == UpperSet \cup Range(LowerChars) \cup DigitChars \cup {"_", LongS, DotlessI}

\* \w
IsWord(c) == c \in WordChars

\* \s, and the characters str.strip() / str.rstrip() remove
IsSpace(c) == c \in {" ", "\n", "\t", "\r"}

\* \b between s[i-1] and s[i]
WordBoundary(s, i) ==
  ((i > 1 /\ i - 1 <= Len(s)) /\ IsWord(s[i-1])) # ((i >= 1 /\ i <= Len(s)) /\ IsWord(s[i]))

\* a literal of the pattern matched at position i, letter case ignored
LitAt(s, i, lit) ==
  /\ i >= 1
  /\ i + Len(lit) - 1 <= Len(s)
  /\ \A k \in 1..Len(lit) : Fold(s[i+k-1]) = Fold(lit[k])

\* a literal matched at position i, letter case respected
ExactAt(s, i, lit) ==
  /\ i >= 1
  /\ i + Len(lit) - 1 <= Len(s)
  /\ \A k \in 1..Len(lit) : s[i+k-1] = lit[k]

\* position after the longest run of \s starting at i (a greedy \s+ or \s*)
SpaceRunEnd(s, i) ==
  IF i > Len(s) THEN i
  ELSE CHOOSE j \in i..(Len(s) + 1) :
         /\ \A k \in i..(j - 1) : IsSpace(s[k])
         /\ (j = Len(s) + 1 \/ ~IsSpace(s[j]))

\* position after the longest run of \w starting at i (a greedy \w+)
WordRunEnd(s, i) ==
  IF i > Len(s) THEN i
  ELSE CHOOSE j \in i..(Len(s) + 1) :
         /\ \A k \in i..(j - 1) : IsWord(s[k])
         /\ (j = Len(s) + 1 \/ ~IsWord(s[j]))

\* substring test: needle in s
Contains(s, needle) == \E i \in 1..(Len(s) + 1) : ExactAt(s, i, needle)

\* str.lstrip()
LStrip(s) == SubSeq(s, SpaceRunEnd(s, 1), Len(s))

\* str.rstrip()
RStrip(s) ==
  LET keep == {k \in 1..Len(s) : ~IsSpace(s[k])}
  IN  IF keep = {} THEN <<>> ELSE SubSeq(s, 1, CHOOSE k \in keep : \A m \in keep : m <= k)

\* str.strip()
Strip(s) == LStrip(RStrip(s))

(***************************************************************************)
(* Keywords and literals of the source's patterns.                         *)
(***************************************************************************)
kw_entity       == <<"e","n","t","i","t","y">>
kw_is           == <<"i","s">>
kw_architecture == <<"a","r","c","h","i","t","e","c","t","u","r","e">>
kw_of           == <<"o","f">>
kw_module       == <<"m","o","d","u","l","e">>
kw_endmodule    == <<"e","n","d","m","o","d","u","l","e">>
kw_always       == <<"a","l","w","a","y","s">>
kw_wire         == <<"w","i","r","e">>
kw_library_ieee == <<"l","i","b","r","a","r","y"," ","i","e","e","e">>
tag_vhdl        == <<"v","h","d","l">>
tag_verilog     == <<"v","e","r","i","l","o","g">>
tag_systemverilog == <<"s","y","s","t","e","m","v","e","r","i","l","o","g">>
\* the grave accent of a Markdown fence; a TLA+ string literal cannot hold that
\* character, so it is written as the one-character token "BQ"
BQ              == "BQ"
fence           == <<BQ, BQ, BQ>>
nl_fence        == <<"\n", BQ, BQ, BQ>>
sp              == <<" ">>

Min(S) == CHOOSE x \in S : \A y \in S : x <= y
Max(S) == CHOOSE x \in S : \A y \in S : x >= y

\* the value standing for Python's None where a string is expected
None == <<"<None>">>

(***************************************************************************)
(* The patterns of HDLProcessor.  Each operator gives, for a match         *)
(* attempted at position i, the position after the match, or 0 when the    *)
(* pattern does not match at i.  In every pattern a greedy \s+ or \w+ is   *)
(* followed by a character of another class, so the longest run is the     *)
(* only run the expression can take.                                       *)
(***************************************************************************)

\* \bentity\s+(\w+)\s+is   (re.IGNORECASE)
EntityDeclEnd(s, i) ==
  LET a == i + Len(kw_entity)
      b == SpaceRunEnd(s, a)
      c == WordRunEnd(s, b)
      d == SpaceRunEnd(s, c)
  IN  IF /\ WordBoundary(s, i) /\ LitAt(s, i, kw_entity)
         /\ b > a /\ c > b /\ d > c /\ LitAt(s, d, kw_is)
      THEN d + Len(kw_is) ELSE 0

\* group(1) of \bentity\s+(\w+)\s+is matched at i
EntityDeclName(s, i) ==
  LET b == SpaceRunEnd(s, i + Len(kw_entity))
  IN  SubSeq(s, b, WordRunEnd(s, b) - 1)

\* \barchitecture\s+\w+\s+of\s+\w+\s+is   (re.IGNORECASE)
ArchDeclEnd(s, i) ==
  LET a == i + Len(kw_architecture)
      b == SpaceRunEnd(s, a)
      c == WordRunEnd(s, b)
      d == SpaceRunEnd(s, c)
      e == d + Len(kw_of)
      f == SpaceRunEnd(s, e)
      g == WordRunEnd(s, f)
      h == SpaceRunEnd(s, g)
  IN  IF /\ WordBoundary(s, i) /\ LitAt(s, i, kw_architecture)
         /\ b > a /\ c > b /\ d > c /\ LitAt(s, d, kw_of)
         /\ f > e /\ g > f /\ h > g /\ LitAt(s, h, kw_is)
      THEN h + Len(kw_is) ELSE 0

\* \bmodule\s+(\w+)   (re.IGNORECASE)
ModuleDeclEnd(s, i) ==
  LET a == i + Len(kw_module)
      b == SpaceRunEnd(s, a)
      c == WordRunEnd(s, b)
  IN  IF WordBoundary(s, i) /\ LitAt(s, i, kw_module) /\ b > a /\ c > b
      THEN c ELSE 0

\* group(1) of \bmodule\s+(\w+) matched at i
ModuleDeclName(s, i) ==
  LET b == SpaceRunEnd(s, i + Len(kw_module))
  IN  SubSeq(s, b, WordRunEnd(s, b) - 1)

\* \bendmodule\b   (re.IGNORECASE)
EndmoduleEnd(s, i) ==
  IF /\ WordBoundary(s, i) /\ LitAt(s, i, kw_endmodule)
     /\ WordBoundary(s, i + Len(kw_endmodule))
  THEN i + Len(kw_endmodule) ELSE 0

\* re.search: the leftmost position where the pattern M matches, 0 when none
ReSearch(M(_, _), s) ==
  LET hits == {i \in 1..Len(s) : M(s, i) > 0}
  IN  IF hits = {} THEN 0 ELSE Min(hits)

\* re.sub for a pattern whose matches are never empty: the text from position i
\* on, every match of M replaced by R, scanning left to right over the original
RECURSIVE ReSub(_, _, _, _)
ReSub(M(_, _), R(_, _), s, i) ==
  LET hits == {j \in i..Len(s) : M(s, j) > 0}
  IN  IF hits = {} THEN SubSeq(s, i, Len(s))
      ELSE SubSeq(s, i, Min(hits) - 1) \o R(s, Min(hits))
             \o ReSub(M, R, s, M(s, Min(hits)))

(***************************************************************************)
(* HDLProcessor._extract_code_and_language                                 *)
(***************************************************************************)
FenceTags == <<tag_vhdl, tag_verilog, tag_systemverilog>>

\* the alternative of (vhdl|verilog|systemverilog) matched after the fence at i,
\* <<>> when none: the three alternatives exclude each other
FenceTagAt(s, i) ==
  IF ~ExactAt(s, i, fence) THEN <<>>
  ELSE LET ks == {k \in DOMAIN FenceTags : LitAt(s, i + Len(fence), FenceTags[k])}
       IN  IF ks = {} THEN <<>> ELSE FenceTags[Min(ks)]

\* (.*?)\n``` after the opening newline at n: the first closing fence, 0 when none
FenceCloseAfter(s, n) ==
  LET js == {j \in (n+1)..Len(s) : ExactAt(s, j, nl_fence)}
  IN  IF js = {} THEN 0 ELSE Min(js)

\* \s*\n after the tag: the greedy \s* gives back characters until the \n it
\* leaves is followed by a closing fence; position of that \n, 0 when none
FenceOpenNewline(s, i) ==
  LET a  == i + Len(fence) + Len(FenceTagAt(s, i))
      w  == SpaceRunEnd(s, a)
      ns == {n \in a..(w - 1) : s[n] = "\n" /\ FenceCloseAfter(s, n) > 0}
  IN  IF FenceTagAt(s, i) = <<>> \/ ns = {} THEN 0 ELSE Max(ns)

\* ```(vhdl|verilog|systemverilog)\s*\n(.*?)\n```   (re.DOTALL | re.IGNORECASE)
FenceBlockEnd(s, i) ==
  IF FenceOpenNewline(s, i) = 0 THEN 0
  ELSE FenceCloseAfter(s, FenceOpenNewline(s, i)) + Len(nl_fence)

\* match.group(2)
FenceBlockInner(s, i) ==
  SubSeq(s, FenceOpenNewline(s, i) + 1, FenceCloseAfter(s, FenceOpenNewline(s, i)) - 1)

\* match.group(1): the text the alternative matched
FenceTagText(s, i) ==
  SubSeq(s, i + Len(fence), i + Len(fence) + Len(FenceTagAt(s, i)) - 1)

\* language in ['verilog', 'systemverilog'] -> 'verilog'
NormalizeLanguage(tag) == IF tag \in {tag_verilog, tag_systemverilog} THEN tag_verilog ELSE tag

VhdlKeywords    == {kw_entity, kw_architecture, kw_library_ieee}
VerilogKeywords == {kw_module, kw_endmodule, kw_always, kw_wire}

\* a variant of _extract_code_and_language that looks for the Verilog keywords first
ExtractVerilogFirst(content) ==
  LET m == ReSearch(FenceBlockEnd, content)
  IN  IF m > 0
      THEN [language |-> NormalizeLanguage(LowerStr(FenceTagText(content, m))),
            code     |-> Strip(FenceBlockInner(content, m))]
      ELSE IF \E k \in VerilogKeywords : Contains(LowerStr(content), k)
      THEN [language |-> tag_verilog, code |-> Strip(content)]
      ELSE [language |-> tag_vhdl, code |-> Strip(content)]

_extract_code_and_language(content) ==
  LET m == ReSearch(FenceBlockEnd, content)
  IN  IF m > 0
      THEN [language |-> NormalizeLanguage(LowerStr(FenceTagText(content, m))),
            code     |-> Strip(FenceBlockInner(content, m))]
      ELSE IF \E k \in VhdlKeywords : Contains(LowerStr(content), k)
      THEN [language |-> tag_vhdl, code |-> Strip(content)]
      ELSE IF \E k \in VerilogKeywords : Contains(LowerStr(content), k)
      THEN [language |-> tag_verilog, code |-> Strip(content)]
      ELSE [language |-> tag_vhdl, code |-> Strip(content)]

(***************************************************************************)
(* HDLProcessor._clean_code                                                *)
(***************************************************************************)
\* code.split('\n')
RECURSIVE SplitLines(_)
SplitLines(s) ==
  LET nls == {i \in 1..Len(s) : s[i] = "\n"}
  IN  IF nls = {} THEN <<s>>
      ELSE <<SubSeq(s, 1, Min(nls) - 1)>> \o SplitLines(SubSeq(s, Min(nls) + 1, Len(s)))

\* '\n'.join(lines)
RECURSIVE JoinLines(_)
JoinLines(lines) ==
  IF Len(lines) = 0 THEN <<>>
  ELSE IF Len(lines) = 1 THEN lines[1]
  ELSE lines[1] \o <<"\n">> \o JoinLines(Tail(lines))

\* while lines and not lines[0].strip(): lines.pop(0)
RECURSIVE DropLeadingBlank(_)
DropLeadingBlank(lines) ==
  IF Len(lines) > 0 /\ Strip(lines[1]) = <<>> THEN DropLeadingBlank(Tail(lines)) ELSE lines

\* while lines and not lines[-1].strip(): lines.pop()
RECURSIVE DropTrailingBlank(_)
DropTrailingBlank(lines) ==
  IF Len(lines) > 0 /\ Strip(lines[Len(lines)]) = <<>>
  THEN DropTrailingBlank(SubSeq(lines, 1, Len(lines) - 1)) ELSE lines

_clean_code(code) ==
  LET lines == [k \in DOMAIN SplitLines(code) |-> RStrip(SplitLines(code)[k])]
  IN  JoinLines(DropTrailingBlank(DropLeadingBlank(lines)))

(***************************************************************************)
(* HDLProcessor._validate_basic_syntax: the message of the ValueError it   *)
(* raises, "" when it returns                                              *)
(***************************************************************************)
\* a variant that does not look for the endmodule statement
ValidateWithoutEndmodule(code, language) ==
  IF language = tag_vhdl
  THEN IF ReSearch(EntityDeclEnd, code) = 0
       THEN "VHDL code must contain an entity declaration"
       ELSE IF ReSearch(ArchDeclEnd, code) = 0
       THEN "VHDL code must contain an architecture declaration"
       ELSE ""
  ELSE IF language = tag_verilog
  THEN IF ReSearch(ModuleDeclEnd, code) = 0
       THEN "Verilog code must contain a module declaration"
       ELSE ""
  ELSE ""

_validate_basic_syntax(code, language) ==
  IF language = tag_vhdl
  THEN IF ReSearch(EntityDeclEnd, code) = 0
       THEN "VHDL code must contain an entity declaration"
       ELSE IF ReSearch(ArchDeclEnd, code) = 0
       THEN "VHDL code must contain an architecture declaration"
       ELSE ""
  ELSE IF language = tag_verilog
  THEN IF ReSearch(ModuleDeclEnd, code) = 0
       THEN "Verilog code must contain a module declaration"
       ELSE IF ReSearch(EndmoduleEnd, code) = 0
       THEN "Verilog code must contain an endmodule statement"
       ELSE ""
  ELSE ""

(***************************************************************************)
(* HDLProcessor._extract_entity_name                                       *)
(***************************************************************************)
_extract_entity_name(code, language) ==
  IF language = tag_vhdl
  THEN IF ReSearch(EntityDeclEnd, code) = 0 THEN None
       ELSE EntityDeclName(code, ReSearch(EntityDeclEnd, code))
  ELSE IF language = tag_verilog
  THEN IF ReSearch(ModuleDeclEnd, code) = 0 THEN None
       ELSE ModuleDeclName(code, ReSearch(ModuleDeclEnd, code))
  ELSE None

(***************************************************************************)
(* HDLProcessor._replace_entity_name                                       *)
(***************************************************************************)
\* \bentity\s+{re.escape(old_name)}\s+is   (re.IGNORECASE)
EntityOldEnd(s, i, old_name) ==
  LET a == i + Len(kw_entity)
      b == SpaceRunEnd(s, a)
      c == b + Len(old_name)
      d == SpaceRunEnd(s, c)
  IN  IF /\ WordBoundary(s, i) /\ LitAt(s, i, kw_entity)
         /\ b > a /\ LitAt(s, b, old_name) /\ d > c /\ LitAt(s, d, kw_is)
      THEN d + Len(kw_is) ELSE 0

\* \barchitecture\s+(\w+)\s+of\s+{re.escape(old_name)}\s+is   (re.IGNORECASE)
ArchOldEnd(s, i, old_name) ==
  LET a == i + Len(kw_architecture)
      b == SpaceRunEnd(s, a)
      c == WordRunEnd(s, b)
      d == SpaceRunEnd(s, c)
      e == d + Len(kw_of)
      f == SpaceRunEnd(s, e)
      g == f + Len(old_name)
      h == SpaceRunEnd(s, g)
  IN  IF /\ WordBoundary(s, i) /\ LitAt(s, i, kw_architecture)
         /\ b > a /\ c > b /\ d > c /\ LitAt(s, d, kw_of)
         /\ f > e /\ LitAt(s, f, old_name) /\ h > g /\ LitAt(s, h, kw_is)
      THEN h + Len(kw_is) ELSE 0

\* group(1) of the architecture pattern matched at i
ArchDeclName(s, i) ==
  LET b == SpaceRunEnd(s, i + Len(kw_architecture))
  IN  SubSeq(s, b, WordRunEnd(s, b) - 1)

\* a variant of the module pattern without the closing \b
ModuleOldEndNoBoundary(s, i, old_name) ==
  LET a == i + Len(kw_module)
      b == SpaceRunEnd(s, a)
      c == b + Len(old_name)
  IN  IF /\ WordBoundary(s, i) /\ LitAt(s, i, kw_module)
         /\ b > a /\ LitAt(s, b, old_name)
      THEN c ELSE 0

\* \bmodule\s+{re.escape(old_name)}\b   (re.IGNORECASE)
ModuleOldEnd(s, i, old_name) ==
  LET a == i + Len(kw_module)
      b == SpaceRunEnd(s, a)
      c == b + Len(old_name)
  IN  IF /\ WordBoundary(s, i) /\ LitAt(s, i, kw_module)
         /\ b > a /\ LitAt(s, b, old_name) /\ WordBoundary(s, c)
      THEN c ELSE 0

\* f'entity {new_name} is'
EntityRepl(new_name) == kw_entity \o sp \o new_name \o sp \o kw_is

\* a variant of the architecture replacement that does not keep group 1
ArchReplRenamesArchitecture(arch_name, new_name) ==
  kw_architecture \o sp \o new_name \o sp \o kw_of \o sp \o new_name \o sp \o kw_is

\* rf'architecture \1 of {new_name} is'
ArchRepl(arch_name, new_name) ==
  kw_architecture \o sp \o arch_name \o sp \o kw_of \o sp \o new_name \o sp \o kw_is

\* f'module {new_name}'
ModuleRepl(new_name) == kw_module \o sp \o new_name

\* a variant that rewrites the entity declaration and not the architecture
ReplaceEntityDeclarationOnly(code, old_name, new_name, language) ==
  IF language = tag_vhdl
  THEN ReSub(LAMBDA s, i : EntityOldEnd(s, i, old_name),
             LAMBDA s, i : EntityRepl(new_name), code, 1)
  ELSE IF language = tag_verilog
  THEN ReSub(LAMBDA s, i : ModuleOldEnd(s, i, old_name),
             LAMBDA s, i : ModuleRepl(new_name), code, 1)
  ELSE code

_replace_entity_name(code, old_name, new_name, language) ==
  IF language = tag_vhdl
  THEN LET code1 == ReSub(LAMBDA s, i : EntityOldEnd(s, i, old_name),
                          LAMBDA s, i : EntityRepl(new_name), code, 1)
       IN  ReSub(LAMBDA s, i : ArchOldEnd(s, i, old_name),
                 LAMBDA s, i : ArchRepl(ArchDeclName(s, i), new_name), code1, 1)
  ELSE IF language = tag_verilog
  THEN ReSub(LAMBDA s, i : ModuleOldEnd(s, i, old_name),
             LAMBDA s, i : ModuleRepl(new_name), code, 1)
  ELSE code

(***************************************************************************)
(* HDLProcessor.parse_hdl_code: the HDLCode it returns, or the error it    *)
(* raises.  cleaned and original_name are the values of the local          *)
(* variables code (after _clean_code) and original_name.                   *)
(***************************************************************************)
parse_hdl_code(ai_response_content, circuit_name) ==
  LET \* lines 105-133, once language, code and original_name are assigned
      WithName(language, cleaned, original_name) ==
        LET err       == _validate_basic_syntax(cleaned, language)
            rewritten == original_name # None /\ original_name # <<>>
                         /\ original_name # circuit_name
        IN  IF err # ""
            THEN [ok |-> FALSE, error |-> err, language |-> language, cleaned |-> cleaned,
                  original_name |-> None, rewritten |-> FALSE, content |-> <<>>,
                  entity_name |-> <<>>, file_extension |-> <<>>]
            ELSE [ok |-> TRUE, error |-> "", language |-> language, cleaned |-> cleaned,
                  original_name |-> original_name, rewritten |-> rewritten,
                  content |-> IF rewritten
                              THEN _replace_entity_name(cleaned, original_name,
                                                        circuit_name, language)
                              ELSE cleaned,
                  entity_name |-> circuit_name,
                  file_extension |-> IF language = tag_vhdl THEN tag_vhdl ELSE <<"v">>]
      \* line 108: original_name = self._extract_entity_name(code, language)
      WithCode(language, cleaned) ==
        CHOOSE r \in {WithName(language, cleaned, name) :
                        name \in {_extract_entity_name(cleaned, language)}} : TRUE
      \* line 104: code = self._clean_code(code)
      WithExtracted(ex) ==
        CHOOSE r \in {WithCode(ex.language, cleaned) :
                        cleaned \in {_clean_code(ex.code)}} : TRUE
  \* line 101: language, code = self._extract_code_and_language(ai_response_content)
  IN  CHOOSE r \in {WithExtracted(ex) :
                      ex \in {_extract_code_and_language(ai_response_content)}} : TRUE

(***************************************************************************)
(* utils/validators.py.  A JSON value of the request body is a record with *)
(* its Python type in field t: a str with its characters in s, an int or a  *)
(* float with its value in n, the float nan, a bool, None, and a dict with  *)
(* its items in d, a function from the keys present to their values.  The   *)
(* prompt, whose characters only the length test and the pattern search      *)
(* read, is a str with its length in len and the result of the pattern       *)
(* search in suspicious.  A validator returns Python's dictionary            *)
(* {'valid', 'message'}; exit tells whether it returned or raised.           *)
(***************************************************************************)
JStr(s)       == [t |-> "str", s |-> s]
JPrompt(n, b) == [t |-> "str", len |-> n, suspicious |-> b]
JInt(n)       == [t |-> "int", n |-> n]
JNaN          == [t |-> "nan"]
JDict(d)      == [t |-> "dict", d |-> d]

\* bool(v), the test  not data[field]
Truthy(v) ==
  CASE v.t = "str"   -> IF "len" \in DOMAIN v THEN v.len > 0 ELSE Len(v.s) > 0
    [] v.t = "int"   -> v.n # 0
    [] v.t = "float" -> v.n # 0
    [] v.t = "nan"   -> TRUE
    [] v.t = "bool"  -> v.b
    [] v.t = "null"  -> FALSE
    [] v.t = "dict"  -> DOMAIN v.d # {}

\* isinstance(v, (int, float)): a bool is an int, nan is a float
IsNumber(v) == v.t \in {"int", "float", "nan", "bool"}

\* the value a number compares with: True is 1, False is 0
NumberOf(v) == IF v.t = "bool" THEN (IF v.b THEN 1 ELSE 0) ELSE v.n

\* x < lo or x > hi; every comparison with nan is false
OutOfRange(v, lo, hi) == v.t # "nan" /\ (NumberOf(v) < lo \/ NumberOf(v) > hi)

Returned(valid, message) == [exit |-> "returned", valid |-> valid, message |-> message]
Raised(message)          == [exit |-> "raised", valid |-> FALSE, message |-> message]

\* field not in config or not config[field]
MissingField(d, field) == field \notin DOMAIN d \/ ~Truthy(d[field])

\* lines 62-110
validate_prompt(prompt) ==
  IF prompt.t # "str" THEN Returned(FALSE, <<"Prompt must be a string">>)
  ELSE IF prompt.len < 10
  THEN Returned(FALSE, <<"Prompt too short (minimum 10 characters)">>)
  ELSE IF prompt.len > 10000
  THEN Returned(FALSE, <<"Prompt too long (maximum 10000 characters)">>)
  ELSE IF prompt.suspicious
  THEN Returned(FALSE, <<"Prompt contains potentially harmful content">>)
  ELSE Returned(TRUE, <<"Prompt is valid">>)

AsciiLetters == UpperSet \cup Range(LowerChars)

\* [a-zA-Z0-9_-]
NameChars == AsciiLetters \cup DigitChars \cup {"_", "-"}

\* lines 145-152
reserved_keywords ==
  { <<"a","n","d">>,
    <<"o","r">>,
    <<"n","o","t">>,
    <<"x","o","r">>,
    <<"n","a","n","d">>,
    <<"n","o","r">>,
    <<"x","n","o","r">>,
    <<"b","e","g","i","n">>,
    <<"e","n","d">>,
    <<"i","f">>,
    <<"t","h","e","n">>,
    <<"e","l","s","e">>,
    <<"c","a","s","e">>,
    <<"w","h","e","n">>,
    <<"p","r","o","c","e","s","s">>,
    <<"s","i","g","n","a","l">>,
    <<"v","a","r","i","a","b","l","e">>,
    <<"e","n","t","i","t","y">>,
    <<"a","r","c","h","i","t","e","c","t","u","r","e">>,
    <<"l","i","b","r","a","r","y">>,
    <<"u","s","e">>,
    <<"p","a","c","k","a","g","e">>,
    <<"c","o","m","p","o","n","e","n","t">>,
    <<"p","o","r","t">>,
    <<"m","a","p">>,
    <<"m","o","d","u","l","e">>,
    <<"e","n","d","m","o","d","u","l","e">>,
    <<"a","l","w","a","y","s">>,
    <<"i","n","i","t","i","a","l">>,
    <<"w","i","r","e">>,
    <<"r","e","g">>,
    <<"i","n","p","u","t">>,
    <<"o","u","t","p","u","t">>,
    <<"i","n","o","u","t">>,
    <<"p","a","r","a","m","e","t","e","r">>,
    <<"a","s","s","i","g","n">> }

\* re.match(r'^[a-zA-Z0-9_-]+$', s): $ also matches before a newline that
\* ends the string
MatchesNameChars(s) ==
  LET body == IF Len(s) > 0 /\ s[Len(s)] = "\n" THEN SubSeq(s, 1, Len(s) - 1) ELSE s
  IN  /\ Len(body) > 0
      /\ \A k \in 1..Len(body) : body[k] \in NameChars

\* re.match(r'^[a-zA-Z_]', s)
StartsWithLetter(s) == Len(s) > 0 /\ s[1] \in AsciiLetters \cup {"_"}

\* lines 113-163
validate_circuit_name(name) ==
  IF name.t # "str" THEN Returned(FALSE, <<"Circuit name must be a string">>)
  ELSE IF Len(name.s) < 1 THEN Returned(FALSE, <<"Circuit name cannot be empty">>)
  ELSE IF Len(name.s) > 100
  THEN Returned(FALSE, <<"Circuit name too long (maximum 100 characters)">>)
  ELSE IF ~MatchesNameChars(name.s)
  THEN Returned(FALSE, <<"Circuit name can only contain letters, numbers, underscores, and hyphens">>)
  ELSE IF ~StartsWithLetter(name.s)
  THEN Returned(FALSE, <<"Circuit name must start with a letter or underscore">>)
  ELSE IF LowerStr(name.s) \in reserved_keywords
  THEN Returned(FALSE, <<"Circuit name \"">> \o name.s \o <<"\" is a reserved keyword">>)
  ELSE Returned(TRUE, <<"Circuit name is valid">>)

lit_https     == <<"h","t","t","p","s",":","/","/">>
lit_azure_com == <<".","o","p","e","n","a","i",".","a","z","u","r","e",".","c","o","m">>
lit_sk        == <<"s","k","-">>
lit_gemini    == <<"g","e","m","i","n","i","-">>

\* str.startswith of a value: a value that is no str has no such attribute
StartsWith(v, prefix) == ExactAt(v.s, 1, prefix)

\* re.match(r'https://[a-zA-Z0-9-]+\.openai\.azure\.com/?', s)
MatchesAzureEndpoint(s) ==
  /\ ExactAt(s, 1, lit_https)
  /\ \E k \in 1..Len(s) :
       /\ \A j \in 1..k : Len(lit_https) + j <= Len(s)
                          /\ s[Len(lit_https) + j] \in AsciiLetters \cup DigitChars \cup {"-"}
       /\ ExactAt(s, Len(lit_https) + k + 1, lit_azure_com)

\* re.match(r'\d{4}-\d{2}-\d{2}(-preview)?', s)
MatchesApiVersion(s) ==
  /\ Len(s) >= 10
  /\ \A k \in {1, 2, 3, 4, 6, 7, 9, 10} : s[k] \in DigitChars
  /\ s[5] = "-" /\ s[8] = "-"

\* lines 199-220; endpoint.startswith and re.match raise on a value that is no str
validate_azure_config(config) ==
  IF MissingField(config, "api_key")
  THEN Returned(FALSE, <<"Missing required field: api_key">>)
  ELSE IF MissingField(config, "endpoint")
  THEN Returned(FALSE, <<"Missing required field: endpoint">>)
  ELSE IF MissingField(config, "api_version")
  THEN Returned(FALSE, <<"Missing required field: api_version">>)
  ELSE IF config["endpoint"].t # "str"
  THEN Raised(<<"'", config["endpoint"].t, "' object has no attribute 'startswith'">>)
  ELSE IF ~StartsWith(config["endpoint"], lit_https)
  THEN Returned(FALSE, <<"Azure endpoint must start with https://">>)
  ELSE IF ~MatchesAzureEndpoint(config["endpoint"].s)
  THEN Returned(FALSE, <<"Invalid Azure OpenAI endpoint format">>)
  ELSE IF config["api_version"].t # "str"
  THEN Raised(<<"expected string or bytes-like object">>)
  ELSE IF ~MatchesApiVersion(config["api_version"].s)
  THEN Returned(FALSE, <<"Invalid API version format (should be YYYY-MM-DD or YYYY-MM-DD-preview)">>)
  ELSE Returned(TRUE, <<"Azure config is valid">>)

\* lines 223-236
validate_openai_config(config) ==
  IF MissingField(config, "api_key")
  THEN Returned(FALSE, <<"Missing required field: api_key">>)
  ELSE IF MissingField(config, "model_name")
  THEN Returned(FALSE, <<"Missing required field: model_name">>)
  ELSE IF config["api_key"].t # "str"
  THEN Raised(<<"'", config["api_key"].t, "' object has no attribute 'startswith'">>)
  ELSE IF ~StartsWith(config["api_key"], lit_sk)
  THEN Returned(FALSE, <<"OpenAI API key should start with sk-">>)
  ELSE Returned(TRUE, <<"OpenAI config is valid">>)

\* lines 239-252
validate_gemini_config(config) ==
  IF MissingField(config, "api_key")
  THEN Returned(FALSE, <<"Missing required field: api_key">>)
  ELSE IF MissingField(config, "model_name")
  THEN Returned(FALSE, <<"Missing required field: model_name">>)
  ELSE IF config["model_name"].t # "str"
  THEN Raised(<<"'", config["model_name"].t, "' object has no attribute 'startswith'">>)
  ELSE IF ~StartsWith(config["model_name"], lit_gemini)
  THEN Returned(FALSE, <<"Gemini model name should start with gemini-">>)
  ELSE Returned(TRUE, <<"Gemini config is valid">>)

p_azure        == <<"a","z","u","r","e">>
p_azure_openai == <<"a","z","u","r","e","_","o","p","e","n","a","i">>
p_openai       == <<"o","p","e","n","a","i">>
p_gpt          == <<"g","p","t">>
p_gemini       == <<"g","e","m","i","n","i">>
p_google_gemini == <<"g","o","o","g","l","e","_","g","e","m","i","n","i">>

\* lines 166-196
validate_provider_config(provider_config) ==
  IF provider_config.t # "dict"
  THEN Returned(FALSE, <<"Provider config must be a dictionary">>)
  ELSE IF "provider_type" \notin DOMAIN provider_config.d
  THEN Returned(FALSE, <<"provider_type is required in provider_config">>)
  ELSE IF provider_config.d["provider_type"] \in {JStr(p_azure_openai), JStr(p_azure)}
  THEN validate_azure_config(provider_config.d)
  ELSE IF provider_config.d["provider_type"] \in {JStr(p_openai), JStr(p_gpt)}
  THEN validate_openai_config(provider_config.d)
  ELSE IF provider_config.d["provider_type"] \in {JStr(p_gemini), JStr(p_google_gemini)}
  THEN validate_gemini_config(provider_config.d)
  ELSE Returned(FALSE, <<"Unsupported provider type: ">>
                       \o (IF provider_config.d["provider_type"].t = "str"
                           THEN provider_config.d["provider_type"].s ELSE <<>>))

\* lines 255-286
validate_generation_params(params) ==
  IF params.t # "dict" THEN Returned(FALSE, <<"Generation params must be a dictionary">>)
  ELSE IF /\ "temperature" \in DOMAIN params.d
          /\ (~IsNumber(params.d["temperature"]) \/ OutOfRange(params.d["temperature"], 0, 2))
  THEN Returned(FALSE, <<"Temperature must be a number between 0 and 2">>)
  ELSE IF /\ "max_tokens" \in DOMAIN params.d
          /\ \/ params.d["max_tokens"].t \notin {"int", "bool"}
             \/ OutOfRange(params.d["max_tokens"], 1, 8000)
  THEN Returned(FALSE, <<"max_tokens must be an integer between 1 and 8000">>)
  ELSE IF /\ "top_p" \in DOMAIN params.d
          /\ (~IsNumber(params.d["top_p"]) \/ OutOfRange(params.d["top_p"], 0, 1))
  THEN Returned(FALSE, <<"top_p must be a number between 0 and 1">>)
  ELSE Returned(TRUE, <<"Generation params are valid">>)

\* lines 14-59; data is the dict request.get_json() returned
validate_request_data(data) ==
  IF \E field \in {"prompt", "circuit_name", "provider_config"} : MissingField(data.d, field)
  THEN Returned(FALSE, <<"Missing required fields: ">>
                       \o SelectSeq(<<"prompt", "circuit_name", "provider_config">>,
                                    LAMBDA field : MissingField(data.d, field)))
  ELSE IF ~validate_prompt(data.d["prompt"]).valid
  THEN validate_prompt(data.d["prompt"])
  ELSE IF ~validate_circuit_name(data.d["circuit_name"]).valid
  THEN validate_circuit_name(data.d["circuit_name"])
  ELSE IF ~validate_provider_config(data.d["provider_config"]).valid
  THEN validate_provider_config(data.d["provider_config"])
  ELSE IF /\ "generation_params" \in DOMAIN data.d
          /\ ~validate_generation_params(data.d["generation_params"]).valid
  THEN validate_generation_params(data.d["generation_params"])
  ELSE Returned(TRUE, <<"Validation successful">>)

\* the replacement of every maximal run of characters of C in s by the
\* character rep (re.sub(r'_+', '_', s); "_".join(s.split()) after the
\* strip): the first character of a run becomes rep, the others go
CollapseRuns(s, C, rep) ==
  LET at    == [i \in 1..Len(s) |-> <<i, s[i]>>]
      heads == SelectSeq(at, LAMBDA p : p[2] \notin C \/ p[1] = 1 \/ s[p[1] - 1] \notin C)
  IN  [k \in 1..Len(heads) |-> IF heads[k][2] \in C THEN rep ELSE heads[k][2]]

\* str.strip(chars), with the characters as a set
StripChars(s, C) ==
  LET keep == {k \in 1..Len(s) : s[k] \notin C}
  IN  IF keep = {} THEN <<>>
      ELSE SubSeq(s, CHOOSE k \in keep : \A m \in keep : k <= m,
                     CHOOSE k \in keep : \A m \in keep : m <= k)

\* str.rstrip(chars)
RStripChars(s, C) ==
  LET keep == {k \in 1..Len(s) : s[k] \notin C}
  IN  IF keep = {} THEN <<>> ELSE SubSeq(s, 1, CHOOSE k \in keep : \A m \in keep : m <= k)

\* werkzeug.utils.secure_filename on ASCII text: path separators become
\* spaces, the words are joined by "_", every character outside
\* [A-Za-z0-9_.-] is removed, and "." and "_" are stripped from both ends
secure_filename(filename) ==
  LET spaced == [i \in 1..Len(filename) |-> IF filename[i] = "/" THEN " " ELSE filename[i]]
      joined == CollapseRuns(StripChars(spaced, {" ", "\n", "\t", "\r"}),
                             {" ", "\n", "\t", "\r"}, "_")
      kept   == SelectSeq(joined, LAMBDA c : c \in NameChars \cup {"."})
  IN  StripChars(kept, {".", "_"})

lit_circuit_ == <<"c","i","r","c","u","i","t","_">>
lit_unnamed_circuit == <<"u","n","n","a","m","e","d","_","c","i","r","c","u","i","t">>

\* lines 289-323
sanitize_circuit_name(circuit_name) ==
  LET base      == secure_filename(circuit_name)
      replaced  == [i \in 1..Len(base) |-> IF base[i] \in NameChars THEN base[i] ELSE "_"]
      collapsed == CollapseRuns(replaced, {"_"}, "_")
      stripped  == StripChars(collapsed, {"_"})
      prefixed  == IF stripped # <<>> /\ ~StartsWithLetter(stripped)
                   THEN lit_circuit_ \o stripped ELSE stripped
      named     == IF prefixed = <<>> THEN lit_unnamed_circuit ELSE prefixed
  IN  IF Len(named) > 50 THEN RStripChars(SubSeq(named, 1, 50), {"_"}) ELSE named

(***************************************************************************)
(* providers/provider_factory.py and providers/azure_provider.py.  A call   *)
(* either returns a value or raises an exception with a message.  net is    *)
(* what the HTTP request of generate_code does: kind is "ok" or the         *)
(* exception raised, text the diagnostic of the HTTP layer.                 *)
(***************************************************************************)
Return(value)  == [exit |-> "returned", value |-> value]
Raise(message) == [exit |-> "raised", message |-> message]

\* dict.get(key, default)
Get(d, key, default) == IF key \in DOMAIN d THEN d[key] ELSE default

c_AzureOpenAIProvider == "AzureOpenAIProvider"
c_GeminiProvider      == "GeminiProvider"
c_OpenAIProvider      == "OpenAIProvider"

\* provider_factory.py lines 17-24
_providers ==
  [t \in {p_azure_openai, p_azure, p_gemini, p_google_gemini, p_openai, p_gpt} |->
     IF t \in {p_azure_openai, p_azure} THEN c_AzureOpenAIProvider
     ELSE IF t \in {p_gemini, p_google_gemini} THEN c_GeminiProvider
     ELSE c_OpenAIProvider]

\* azure_provider.py lines 200-221 and 14-22: create_from_dict and __init__
AzureCreateFromDict(config) ==
  LET missing == {k \in {"api_key", "endpoint", "api_version"} : k \notin DOMAIN config}
      additional_params == Get(config, "additional_params", JDict(<<>>))
  IN  IF missing # {} THEN Raise(<<"'", CHOOSE k \in missing : TRUE, "'">>)
      ELSE IF Truthy(additional_params) /\ additional_params.t # "dict"
      THEN Raise(<<"'", additional_params.t, "' object has no attribute 'get'">>)
      ELSE Return([class |-> c_AzureOpenAIProvider,
                   config |-> [api_key |-> config["api_key"],
                               endpoint |-> config["endpoint"],
                               api_version |-> config["api_version"]]])

\* GeminiProvider.create_from_dict and OpenAIProvider.create_from_dict: a
\* provider, or an exception
OtherCreateFromDict(class, config, other) ==
  IF other = "create_raises" THEN Raise(<<"invalid configuration">>)
  ELSE Return([class |-> class, config |-> config, behaviour |-> other])

\* provider_factory.py lines 27-71
create_provider(provider_type, config, other) ==
  LET type == Strip(LowerStr(provider_type))
  IN  IF type \notin DOMAIN _providers
      THEN Raise(<<"Unsupported provider type '">> \o type \o <<"'. Available providers: ">>)
      ELSE \* lines 55-71: every exception of the creation is raised again
           LET created == IF _providers[type] = c_AzureOpenAIProvider
                          THEN AzureCreateFromDict(config)
                          ELSE OtherCreateFromDict(_providers[type], config, other)
           IN  IF created.exit = "raised"
               THEN Raise(<<"Failed to create ">> \o type \o <<" provider: ">> \o created.message)
               ELSE created

\* azure_provider.py lines 24-52
validate_config(provider) ==
  LET missing == SelectSeq(<<"api_key", "endpoint", "api_version">>,
                           LAMBDA field : ~Truthy(provider.config[field]))
  IN  IF missing # <<>>
      THEN Raise(<<"Missing required Azure OpenAI configuration: ">> \o missing)
      ELSE IF provider.config.endpoint.t # "str"
      THEN Raise(<<"'", provider.config.endpoint.t, "' object has no attribute 'startswith'">>)
      ELSE IF ~StartsWith(provider.config.endpoint, lit_https)
      THEN Raise(<<"Azure endpoint must start with 'https://'">>)
      ELSE Return(TRUE)

\* azure_provider.py lines 54-142
generate_code(provider, net) ==
  IF validate_config(provider).exit = "raised" THEN validate_config(provider)
  ELSE IF net.kind = "ok"
  THEN Return([content |-> net.text, provider |-> p_azure_openai, model |-> "gpt-4o"])
  ELSE IF net.kind = "RequestException"
  THEN Raise(<<"Azure OpenAI API request failed: ">> \o net.text)
  ELSE IF net.kind = "KeyError"
  THEN Raise(<<"Invalid response format from Azure OpenAI: missing ">> \o net.text)
  ELSE Raise(<<"Failed to generate code with Azure OpenAI: ">> \o net.text)

\* azure_provider.py lines 170-197
test_connection(provider, net) ==
  IF validate_config(provider).exit = "raised"
  THEN Return([success |-> FALSE,
               message |-> <<"Connection failed: ">> \o validate_config(provider).message,
               provider |-> p_azure_openai])
  ELSE IF generate_code(provider, net).exit = "raised"
  THEN Return([success |-> FALSE,
               message |-> <<"Connection failed: ">> \o generate_code(provider, net).message,
               provider |-> p_azure_openai])
  ELSE Return([success |-> TRUE, message |-> <<"Connection successful">>,
               provider |-> p_azure_openai, model |-> generate_code(provider, net).value.model])

\* test_connection and generate_code of GeminiProvider and OpenAIProvider, by the
\* provider contract: test_connection returns a status and never raises;
\* generate_code returns a response or raises
OtherTestConnection(provider) ==
  IF provider.behaviour = "test_success"
  THEN Return([success |-> TRUE, message |-> <<"Connection successful">>])
  ELSE Return([success |-> FALSE, message |-> <<"Connection failed: ", "quota exceeded">>])

OtherGenerateCode(provider) ==
  IF provider.behaviour = "generate_ok"
  THEN Return([content |-> <<>>, model |-> "model"])
  ELSE Raise(<<"quota exceeded">>)

\* what GeminiProvider and OpenAIProvider may do
OtherBehaviours ==
  {"create_raises", "test_success", "test_failure", "generate_ok", "generate_raises"}

\* hasattr(provider, 'test_connection')
HasTestConnection(provider) ==
  \/ provider.class = c_AzureOpenAIProvider
  \/ provider.behaviour \in {"test_success", "test_failure"}

\* a variant of test_provider_connection without the outer try
TestProviderWithoutTry(provider_type, config, net, other) ==
  LET created == create_provider(provider_type, config, other)
  IN  IF created.exit = "raised" THEN created
      ELSE IF created.value.class = c_AzureOpenAIProvider
      THEN test_connection(created.value, net)
      ELSE OtherTestConnection(created.value)

\* provider_factory.py lines 257-296
test_provider_connection(provider_type, config, net, other) ==
  LET created == create_provider(provider_type, config, other)
      provider == created.value
      tested == IF provider.class = c_AzureOpenAIProvider
                THEN test_connection(provider, net)
                ELSE OtherTestConnection(provider)
  IN  IF created.exit = "raised"
      THEN Return([success |-> FALSE,
                   message |-> <<"Failed to test connection: ">> \o created.message,
                   provider |-> provider_type])
      ELSE IF HasTestConnection(provider)
      THEN IF tested.exit = "raised"
           THEN Return([success |-> FALSE,
                        message |-> <<"Failed to test connection: ">> \o tested.message,
                        provider |-> provider_type])
           ELSE tested
      ELSE IF OtherGenerateCode(provider).exit = "raised"
      THEN Return([success |-> FALSE,
                   message |-> <<"Connection test failed: ">>
                               \o OtherGenerateCode(provider).message,
                   provider |-> provider_type])
      ELSE Return([success |-> TRUE, message |-> <<"Connection successful (basic test)">>,
                   provider |-> provider_type,
                   model |-> OtherGenerateCode(provider).value.model])

(***************************************************************************)
(* HDLProcessor._detect_testbench                                          *)
(***************************************************************************)
m_testbench == <<"t","e","s","t","b","e","n","c","h">>
m_tb_       == <<"t","b","_">>
m__tb       == <<"_","t","b">>
m_test_     == <<"t","e","s","t","_">>
m_initial   == <<"i","n","i","t","i","a","l">>
m_monitor   == <<"$","m","o","n","i","t","o","r">>

\* a variant of _detect_testbench with one list of markers for both languages
DetectTestbenchOneList(code, language) ==
  \E keyword \in {m_testbench, m_tb_, m__tb, m_test_, m_initial, m_monitor} :
     Contains(LowerStr(code), keyword)

\* lines 341-348
_detect_testbench(code, language) ==
  IF language = tag_vhdl
  THEN \E keyword \in {m_testbench, m_tb_, m__tb, m_test_} : Contains(LowerStr(code), keyword)
  ELSE IF language = tag_verilog
  THEN \E keyword \in {m_testbench, m_tb_, m__tb, m_initial, m_monitor} :
          Contains(LowerStr(code), keyword)
  ELSE FALSE

(***************************************************************************)
(* Texts the model draws its inputs from.                                  *)
(***************************************************************************)
nl        == <<"\n">>
n_foo     == <<"f","o","o">>
n_FOO     == <<"F","O","O">>
n_foobar  == <<"f","o","o","b","a","r">>
n_bar     == <<"b","a","r">>
n_rtl     == <<"r","t","l">>
n_my_and  == <<"m","y","-","a","n","d">>
ext_v       == <<"v">>
ext_pdsprj  == <<"p","d","s","p","r","j">>
dot         == <<".">>

\* concatenation of a sequence of texts
RECURSIVE Concat(_)
Concat(ts) == IF Len(ts) = 0 THEN <<>> ELSE ts[1] \o Concat(Tail(ts))

\* AI responses of the /generate model: a fenced VHDL design, a fenced Verilog
\* design, a design whose tag is written with the long s, and prose without HDL
AIResponses ==
  { Concat(<<fence, tag_vhdl, nl, kw_entity, sp, n_foo, sp, kw_is, nl,
             kw_architecture, sp, n_rtl, sp, kw_of, sp, n_foo, sp, kw_is, nl_fence>>),
    Concat(<<fence, tag_verilog, nl, kw_module, sp, n_foo, nl, kw_endmodule, nl_fence>>),
    Concat(<<fence, <<LongS>>, Tail(tag_systemverilog), nl, kw_module, sp, n_foo, nl,
             kw_endmodule, nl_fence>>),
    <<"s","o","r","r","y">> }

\* circuit names of the /generate model, as sanitize_circuit_name returns them
CircuitNames == {n_bar, n_foo}

\* values of the request body
s_endpoint    == lit_https \o <<"x">> \o lit_azure_com
s_api_version == <<"2","0","2","4","-","0","2","-","0","1">>
s_api_key     == <<"k","e","y">>

AzureConfig(endpoint) ==
  JDict([provider_type |-> JStr(p_azure), api_key |-> JStr(s_api_key),
         endpoint |-> endpoint, api_version |-> JStr(s_api_version)])

RequestBody(prompt, name, provider_config) ==
  JDict([prompt |-> prompt, circuit_name |-> name, provider_config |-> provider_config])

WithParams(body, params) ==
  JDict([k \in DOMAIN body.d \cup {"generation_params"} |->
           IF k = "generation_params" THEN JDict(params) ELSE body.d[k]])

GoodRequest(name) == RequestBody(JPrompt(25, FALSE), JStr(name), AzureConfig(JStr(s_endpoint)))

\* the bodies a client sends: well-formed ones, and ones with a field missing,
\* of the wrong type or out of range
RequestData ==
  { GoodRequest(n_bar), GoodRequest(n_foo),
    JDict(<<>>),
    JDict([circuit_name |-> JStr(n_foo), provider_config |-> AzureConfig(JStr(s_endpoint))]),
    RequestBody(JPrompt(5, FALSE), JStr(n_foo), AzureConfig(JStr(s_endpoint))),
    RequestBody(JPrompt(25, TRUE), JStr(n_foo), AzureConfig(JStr(s_endpoint))),
    RequestBody(JPrompt(25, FALSE), JStr(<<"1","a">>), AzureConfig(JStr(s_endpoint))),
    RequestBody(JPrompt(25, FALSE), JStr(kw_module), AzureConfig(JStr(s_endpoint))),
    RequestBody(JPrompt(25, FALSE), JStr(n_foo), JDict([provider_type |-> JStr(n_foo)])),
    RequestBody(JPrompt(25, FALSE), JStr(n_foo), AzureConfig(JStr(<<"x">> \o lit_azure_com))),
    RequestBody(JPrompt(25, FALSE), JStr(n_foo), AzureConfig(JInt(12345))),
    WithParams(GoodRequest(n_foo), [temperature |-> JInt(3)]),
    WithParams(GoodRequest(n_foo), [max_tokens |-> JInt(0)]),
    WithParams(GoodRequest(n_foo), [top_p |-> JInt(2)]),
    WithParams(GoodRequest(n_foo), [temperature |-> JNaN]),
    WithParams(GoodRequest(n_foo), [temperature |-> JInt(1), max_tokens |-> JInt(100),
                                    top_p |-> JInt(1)]) }

SessionIds == {"s1", "s2"}

\* what the connection test is called with, and what the network does
ProviderTypes ==
  { p_azure, p_azure_openai, <<" ","A","z","u","r","e","\n">>, p_openai, p_gemini, n_foo, <<>> }

ProviderConfigs ==
  { AzureConfig(JStr(s_endpoint)).d,
    [provider_type |-> JStr(p_azure), endpoint |-> JStr(s_endpoint),
     api_version |-> JStr(s_api_version)],
    AzureConfig(JStr(<<>>)).d,
    AzureConfig(JStr(<<"x">> \o lit_azure_com)).d,
    AzureConfig(JInt(12345)).d,
    [k \in DOMAIN AzureConfig(JStr(s_endpoint)).d \cup {"additional_params"} |->
       IF k = "additional_params" THEN JStr(n_foo) ELSE AzureConfig(JStr(s_endpoint)).d[k]],
    [k \in DOMAIN AzureConfig(JStr(s_endpoint)).d \cup {"additional_params"} |->
       IF k = "additional_params" THEN JDict([deployment_name |-> JStr(n_foo)])
       ELSE AzureConfig(JStr(s_endpoint)).d[k]],
    <<>> }

NetOutcomes ==
  { [kind |-> "ok", text |-> <<"generated text">>],
    [kind |-> "RequestException", text |-> <<"401 Client Error: Unauthorized">>],
    [kind |-> "RequestException", text |-> <<"Read timed out">>],
    [kind |-> "KeyError", text |-> <<"'choices'">>],
    [kind |-> "Exception", text |-> <<"Expecting value">>] }

(***************************************************************************)
(* State.                                                                  *)
(***************************************************************************)
VARIABLES
  \* a text function under test: its arguments, its result, and whether it ran
  f_in, f_out, f_pc,
  \* the /generate request (app.py generate_hdl)
  pc,                  \* position of the handler
  data,                \* request.get_json()
  connection_test,     \* what ProviderFactory.test_provider_connection returned
  session_id,          \* str(uuid.uuid4())
  circuit_name,        \* sanitize_circuit_name(data['circuit_name'])
  cleanup_temp_files,  \* current_config.export.cleanup_temp_files
  ai_response,         \* ai_response.content
  hdl_code,            \* the HDLCode parse_hdl_code returned
  dirs,                \* directories on disk
  files,               \* regular files on disk, [dir, name]
  source_data,         \* content of the HDL source file on disk
  calls,               \* the operations invoked so far, in order
  warnings,            \* local variable warnings of _compile_vhdl / _compile_verilog
  runs,                \* what each subprocess.run of the compilers did, in order
  compilation_result,  \* the CompilationResult of the handler
  compile_exit,        \* how compile_hdl ended: "none", "returned", "raised"
  export_result,       \* the ProjectExport of the handler
  export_exit,         \* how export_project ended: "none", "returned", "raised"
  archive,             \* members of the .pdsprj archive, in the order written
  response,            \* the response of the handler
  \* two /generate requests in flight at once
  c_req,               \* per request: position, session_id, names, paths touched, archive
  c_disk               \* the directories and the regular files on disk, with their writer

text_vars == <<f_in, f_out, f_pc>>
req_vars  == <<pc, data, connection_test, session_id, circuit_name, cleanup_temp_files, ai_response, hdl_code,
               dirs, files, source_data, calls, warnings, runs, compilation_result,
               compile_exit, export_result, export_exit, archive, response>>
conc_vars == <<c_req, c_disk>>
vars      == <<text_vars, req_vars, conc_vars>>

NoValue == [none |-> TRUE]

\* the request part of the state before a request arrives
ReqIdle ==
  /\ pc = "request"
  /\ session_id \in SessionIds
  /\ data \in RequestData
  /\ connection_test = NoValue
  /\ circuit_name = <<>>
  /\ cleanup_temp_files \in BOOLEAN
  /\ ai_response = <<>>
  /\ hdl_code = NoValue
  /\ dirs = {<<"work">>, <<"temp">>}
  /\ files = {}
  /\ source_data = <<>>
  /\ calls = <<>>
  /\ warnings = <<>>
  /\ runs = <<>>
  /\ compilation_result = NoValue
  /\ compile_exit = "none"
  /\ export_result = NoValue
  /\ export_exit = "none"
  /\ archive = <<>>
  /\ response = NoValue

\* the state of the concurrent requests when a single request is modelled
ConcIdle ==
  /\ c_req = NoValue
  /\ c_disk = NoValue

\* the text-function part of the state when no text function is under test
TextIdle ==
  /\ f_in = NoValue
  /\ f_out = NoValue
  /\ f_pc = "idle"

(***************************************************************************)
(* Values of the /generate handler.  An Optional value is a sequence of    *)
(* length 0 (None) or 1; a text is a sequence of strings, characters or    *)
(* longer pieces, so that formatted messages are concatenations.           *)
(***************************************************************************)
NoneOpt   == <<>>
Some(x)   == <<x>>

\* config.compiler.timeout
Timeout == 60

\* a variant in which every session compiles in the work directory itself
BuildDirShared(sid) == <<"work">>

\* os.path.join(self.work_directory, session_id)
BuildDir(sid) == <<"work", sid>>
\* os.path.join(current_config.export.temp_directory, session_id) and below
SessionDir(sid)   == <<"temp", sid>>
GeneratedDir(sid) == <<"temp", sid, "generated">>
SessionBuildDir(sid) == <<"temp", sid, "build">>
ExportDir(sid)    == <<"temp", sid, "export">>

\* is path d the directory root or below it
IsUnder(d, root) == Len(d) >= Len(root) /\ SubSeq(d, 1, Len(root)) = root

\* f"{hdl_code.entity_name}.{hdl_code.file_extension}" in the build directory
SourceFile(code, sid) ==
  [dir |-> BuildDir(sid), name |-> code.entity_name \o dot \o code.file_extension]

\* f"{hdl_code.entity_name}.pdsprj" in the export directory
ProjectFile(code, export_dir) ==
  [dir |-> export_dir, name |-> code.entity_name \o dot \o ext_pdsprj]

\* the jsonify(...) error responses and the send_file response
JsonError(status, error) ==
  [status |-> status, kind |-> "json", error |-> error, file |-> NoneOpt,
   download_name |-> <<>>, compilation_success |-> ""]

FileResponse(path, name, result) ==
  [status |-> 200, kind |-> "file", error |-> <<>>, file |-> Some(path),
   download_name |-> name \o dot \o ext_pdsprj,
   compilation_success |-> IF result.success THEN "True" ELSE "False"]

\* CompilationResult(success=False, ...): warnings keeps its default None
FailedResult(entity_name, language, error_message) ==
  [success |-> FALSE, entity_name |-> entity_name, language |-> language,
   build_files |-> <<>>, error_message |-> Some(error_message), warnings |-> NoneOpt]

\* CompilationResult(success=True, ...)
SuccessResult(entity_name, language, build_files, warns) ==
  [success |-> TRUE, entity_name |-> entity_name, language |-> language,
   build_files |-> build_files, error_message |-> NoneOpt, warnings |-> Some(warns)]

\* what one subprocess.run(cmd, capture_output=True, text=True, timeout=...) can do:
\* exit with status zero and with or without text on standard error, exit non-zero,
\* exceed the timeout (subprocess.TimeoutExpired), or fail to launch (OSError)
StageOutcomes(stage) ==
  { [kind |-> "exit", returncode |-> 0, stderr |-> <<>>],
    [kind |-> "exit", returncode |-> 0, stderr |-> <<stage, ": warning">>],
    [kind |-> "exit", returncode |-> 1, stderr |-> <<stage, ": error">>],
    [kind |-> "timeout", returncode |-> 0, stderr |-> <<>>],
    [kind |-> "oserror", returncode |-> 0, stderr |-> <<stage, ": No such file or directory">>] }

\* a variant of the timeout message that does not give the timeout
TimeoutMessageWithoutValue == <<"Compilation timed out">>

\* f"Compilation timeout after {self.timeout} seconds"
TimeoutMessage == <<"Compilation timeout after ", ToString(Timeout), " seconds">>

\* the files a compiler stage that exited with status zero may leave in the build directory
StageArtifacts(stage, entity_name) ==
  IF stage = "analyze" THEN <<"w","o","r","k","-","o","b","j","9","3",".","c","f">>
  ELSE IF stage = "elaborate" THEN <<"e","~">> \o entity_name \o <<".","o">>
  ELSE entity_name \o <<".","o","u","t">>

\* every order os.listdir may give the members of S in
Orderings(S) == {q \in [1..Cardinality(S) -> S] : Range(q) = S}

\* chr(10).join(texts)
RECURSIVE JoinTexts(_)
JoinTexts(ts) ==
  IF Len(ts) = 0 THEN <<>>
  ELSE IF Len(ts) = 1 THEN ts[1]
  ELSE ts[1] \o nl \o JoinTexts(Tail(ts))

\* str(x) of an Optional text: 'None' for None
StrOpt(x) == IF x = NoneOpt THEN <<"None">> ELSE x[1]

(***************************************************************************)
(* HDLProcessor._generate_project_readme                                   *)
(***************************************************************************)
_generate_project_readme(code, result) ==
  LET head  == <<"HDL AI Proteus Project - ">> \o code.entity_name
                 \o <<"\n- HDL Language: ">> \o code.language
                 \o <<"\n- Compilation Status: ", IF result.success THEN "SUCCESS" ELSE "FAILED">>
                 \o <<"\n- ">> \o code.entity_name \o dot \o code.file_extension
                 \o <<": Main HDL source file\n">>
      stats == <<"Code Statistics:\n">>
      warn  == IF result.warnings # NoneOpt /\ result.warnings[1] # <<>>
               THEN <<"Compilation Warnings:\n">> \o JoinTexts(result.warnings[1]) \o <<"\n\n">>
               ELSE <<>>
      error == IF ~result.success
               THEN <<"Compilation Error:\n">> \o StrOpt(result.error_message) \o <<"\n\n">>
               ELSE <<>>
  IN  head \o stats \o warn \o error \o <<"Usage Instructions:\n">>

\* the dictionary export_project passes to _create_json_string
ProjectInfo(code, result) ==
  [project_name |-> code.entity_name, hdl_language |-> code.language,
   generated_by |-> "HDL AI Proteus", compilation_success |-> result.success,
   metadata |-> [original_entity_name |-> code.original_name]]

\* one archive member: zip_file.write(file, arcname) or zip_file.writestr(arcname, data)
Member(name, text, json) == [name |-> name, text |-> text, json |-> json]

\* a variant that adds the build files whatever the compilation result
ExportMembersOfAnyResult(code, result, sid, onDisk, srcData) ==
  LET src   == IF SourceFile(code, sid) \in onDisk
               THEN <<Member(SourceFile(code, sid).name, srcData, NoValue)>> ELSE <<>>
      exist == SelectSeq(result.build_files, LAMBDA f : f \in onDisk)
      built == [k \in DOMAIN exist |->
                  Member(exist[k].name,
                         IF exist[k] = SourceFile(code, sid) THEN srcData ELSE <<"<artifact>">>,
                         NoValue)]
  IN  src \o built
        \o <<Member(<<"project_info.json">>, <<>>, ProjectInfo(code, result)),
             Member(<<"README.txt">>, _generate_project_readme(code, result), NoValue)>>

\* the members export_project writes, given the files on disk
ExportMembers(code, result, sid, onDisk, srcData) ==
  LET src   == IF SourceFile(code, sid) \in onDisk
               THEN <<Member(SourceFile(code, sid).name, srcData, NoValue)>> ELSE <<>>
      exist == IF result.success
               THEN SelectSeq(result.build_files, LAMBDA f : f \in onDisk)
               ELSE <<>>
      built == [k \in DOMAIN exist |->
                  Member(exist[k].name,
                         IF exist[k] = SourceFile(code, sid) THEN srcData ELSE <<"<artifact>">>,
                         NoValue)]
  IN  src \o built
        \o <<Member(<<"project_info.json">>, <<>>, ProjectInfo(code, result)),
             Member(<<"README.txt">>, _generate_project_readme(code, result), NoValue)>>

\* os.path.getsize(project_file): the end-of-archive record and something per member
ArchiveSize(members) == 22 + Len(members)

(***************************************************************************)
(* The /generate handler (app.py generate_hdl), one action per step.       *)
(***************************************************************************)
Call(op) == calls' = Append(calls, op)

\* lines 239-250: request.get_json(), validate_request_data and
\* sanitize_circuit_name; a rejected request returns before session_dir is set,
\* so the finally clause has nothing to remove; an exception raised by the
\* validation reaches the outer except clause (lines 381-387)
ValidateRequest ==
  /\ pc = "request"
  /\ IF ~Truthy(data)
     THEN /\ pc' = "done"
          /\ response' = JsonError(400, <<"No JSON data provided">>)
          /\ UNCHANGED circuit_name
     ELSE \E validation_result \in {validate_request_data(data)} :
            IF validation_result.exit = "raised"
            THEN /\ pc' = "done"
                 /\ response' = JsonError(500, <<"Internal server error: ">>
                                                \o validation_result.message)
                 /\ UNCHANGED circuit_name
            ELSE IF ~validation_result.valid
            THEN /\ pc' = "done"
                 /\ response' = JsonError(400, validation_result.message)
                 /\ UNCHANGED circuit_name
            ELSE /\ pc' = "session_dirs"
                 /\ response' = response
                 /\ circuit_name' = sanitize_circuit_name(data.d["circuit_name"].s)
  /\ UNCHANGED <<connection_test, data, runs, session_id, cleanup_temp_files, ai_response, hdl_code,
                 dirs, files, source_data, calls, warnings, compilation_result,
                 compile_exit, export_result, export_exit, archive>>

\* lines 259-266: os.makedirs of the session directories; an OSError reaches the
\* outer except clause
CreateSessionDirs ==
  /\ pc = "session_dirs"
  /\ \E ok \in BOOLEAN :
       IF ok
       THEN /\ dirs' = dirs \cup {SessionDir(session_id), GeneratedDir(session_id),
                                  SessionBuildDir(session_id), ExportDir(session_id)}
            /\ pc' = "test_connection"
            /\ response' = response
       ELSE /\ dirs' = dirs \cup {SessionDir(session_id)}
            /\ pc' = "finally"
            /\ response' = JsonError(500, <<"Internal server error: ", "makedirs failed">>)
  /\ UNCHANGED <<connection_test, data, runs, session_id, circuit_name, cleanup_temp_files, ai_response, hdl_code,
                 files, source_data, calls, warnings, compilation_result,
                 compile_exit, export_result, export_exit, archive>>

\* line 252: provider_config_data.get('provider_type', current_config.default_provider)
ProviderTypeOf(request) == Get(request.d["provider_config"].d, "provider_type", JStr(p_azure)).s

\* lines 268-285: ProviderFactory.test_provider_connection; the error of the
\* response is connection_test.get("error", "Unable to connect to AI provider")
TestProviderConnection ==
  /\ pc = "test_connection"
  /\ Call("test_provider_connection")
  /\ \E net \in NetOutcomes :
       \E tested \in {test_provider_connection(ProviderTypeOf(data),
                                               data.d["provider_config"].d, net,
                                               "test_success")} :
         /\ connection_test' = tested
         /\ IF tested.exit = "raised"
            THEN /\ pc' = "finally"
                 /\ response' = JsonError(400, <<"Provider connection test failed: ">>
                                                \o tested.message)
            ELSE IF ~tested.value.success
            THEN /\ pc' = "finally"
                 /\ response' =
                      JsonError(400, <<"Provider connection failed: ">>
                                     \o Get(tested.value, "error",
                                            <<"Unable to connect to AI provider">>))
            ELSE /\ pc' = "create_provider"
                 /\ response' = response
  /\ UNCHANGED <<data, runs, session_id, circuit_name, cleanup_temp_files, ai_response, hdl_code,
                 dirs, files, source_data, warnings, compilation_result,
                 compile_exit, export_result, export_exit, archive>>

\* lines 289-293: ProviderFactory.create_provider
CreateProvider ==
  /\ pc = "create_provider"
  /\ Call("create_provider")
  /\ \E created \in {create_provider(ProviderTypeOf(data), data.d["provider_config"].d,
                                      "test_success")} :
       IF created.exit = "returned"
       THEN /\ pc' = "generate_code"
            /\ response' = response
       ELSE /\ pc' = "finally"
            /\ response' = JsonError(400, <<"Failed to create AI provider: ">>
                                           \o created.message)
  /\ UNCHANGED <<connection_test, data, runs, session_id, circuit_name, cleanup_temp_files,
                 ai_response, hdl_code,
                 dirs, files, source_data, warnings, compilation_result,
                 compile_exit, export_result, export_exit, archive>>

\* lines 295-300: provider.generate_code returns a response or raises
GenerateCode ==
  /\ pc = "generate_code"
  /\ Call("generate_code")
  /\ \/ \E r \in AIResponses :
          /\ ai_response' = r
          /\ pc' = "parse"
          /\ response' = response
     \/ /\ ai_response' = ai_response
        /\ pc' = "finally"
        /\ response' = JsonError(500, <<"Failed to generate code: ", "provider error">>)
  /\ UNCHANGED <<connection_test, data, runs, session_id, circuit_name, cleanup_temp_files, hdl_code,
                 dirs, files, source_data, warnings, compilation_result,
                 compile_exit, export_result, export_exit, archive>>

\* a variant of the handler that goes on to compile what a failed parse left
ParseHdlCodeContinues ==
  /\ pc = "parse"
  /\ Call("parse_hdl_code")
  /\ hdl_code' = parse_hdl_code(ai_response, circuit_name)
  /\ pc' = "compile"
  /\ UNCHANGED <<connection_test, data, runs, session_id, circuit_name, cleanup_temp_files, ai_response,
                 dirs, files, source_data, warnings, compilation_result,
                 compile_exit, export_result, export_exit, archive, response>>

\* lines 302-307: hdl_processor.parse_hdl_code returns an HDLCode or raises ValueError
ParseHdlCode ==
  /\ pc = "parse"
  /\ Call("parse_hdl_code")
  /\ \E parsed \in {parse_hdl_code(ai_response, circuit_name)} :
         IF parsed.ok
         THEN /\ hdl_code' = parsed
              /\ pc' = "compile"
              /\ response' = response
         ELSE /\ hdl_code' = hdl_code
              /\ pc' = "finally"
              /\ response' = JsonError(500, <<"Failed to parse HDL code: ", parsed.error>>)
  /\ UNCHANGED <<connection_test, data, runs, session_id, circuit_name, cleanup_temp_files, ai_response,
                 dirs, files, source_data, warnings, compilation_result,
                 compile_exit, export_result, export_exit, archive>>

(***************************************************************************)
(* HDLProcessor.compile_hdl, called at lines 309-325 of the handler.  An   *)
(* exception that leaves compile_hdl is caught by the handler, which makes *)
(* the failed CompilationResult itself.                                    *)
(***************************************************************************)
\* compile_hdl returns result
CompileReturns(result) ==
  /\ compilation_result' = result
  /\ compile_exit' = "returned"
  /\ pc' = "export"

\* a variant of the handler in which an exception of compile_hdl ends the request
CompileRaisesAborts(e) ==
  /\ compilation_result' = FailedResult(circuit_name, hdl_code.language, e)
  /\ compile_exit' = "raised"
  /\ pc' = "finally"

\* compile_hdl raises e: lines 315-325 of the handler
CompileRaises(e) ==
  /\ compilation_result' = FailedResult(circuit_name, hdl_code.language, e)
  /\ compile_exit' = "raised"
  /\ pc' = "export"

\* lines 151-153: os.makedirs(build_dir, exist_ok=True), before the try block
CompileMakeDir ==
  /\ pc = "compile"
  /\ Call("compile_hdl")
  /\ \E ok \in BOOLEAN :
       IF ok
       THEN /\ dirs' = dirs \cup {BuildDir(session_id)}
            /\ pc' = "c_write"
            /\ UNCHANGED <<compilation_result, compile_exit>>
       ELSE /\ dirs' = dirs
            /\ CompileRaises(<<"makedirs: Permission denied">>)
  /\ UNCHANGED <<connection_test, data, runs, session_id, circuit_name, cleanup_temp_files, ai_response, hdl_code,
                 files, source_data, warnings, export_result, export_exit, archive,
                 response>>

\* lines 155-166: open(hdl_file, 'w') and f.write(content), before the try block, then
\* the choice of the compiler inside it; a failed write may leave an empty file
CompileWriteSource ==
  /\ pc = "c_write"
  /\ Call("write_source")
  /\ \E ok \in BOOLEAN, created \in BOOLEAN :
       IF ok
       THEN /\ files' = files \cup {SourceFile(hdl_code, session_id)}
            /\ source_data' = hdl_code.content
            /\ IF hdl_code.language = tag_vhdl
               THEN pc' = "c_analyze" /\ UNCHANGED <<compilation_result, compile_exit>>
               ELSE IF hdl_code.language = tag_verilog
               THEN pc' = "c_verilog" /\ UNCHANGED <<compilation_result, compile_exit>>
               ELSE CompileReturns(FailedResult(hdl_code.entity_name, hdl_code.language,
                                     <<"Unsupported HDL language: ">> \o hdl_code.language))
       ELSE /\ files' = IF created THEN files \cup {SourceFile(hdl_code, session_id)}
                        ELSE files
            /\ source_data' = <<>>
            /\ CompileRaises(<<"write: No space left on device">>)
  /\ UNCHANGED <<connection_test, data, runs, session_id, circuit_name, cleanup_temp_files, ai_response, hdl_code,
                 dirs, warnings, export_result, export_exit, archive, response>>

\* a stage that exited with status zero: its standard error, if any, is a warning,
\* and it may have left its artifact in the build directory
StagePasses(stage, outcome, produced) ==
  /\ warnings' = IF outcome.stderr # <<>> THEN Append(warnings, outcome.stderr) ELSE warnings
  /\ files' = IF produced
              THEN files \cup {[dir |-> BuildDir(session_id),
                                name |-> StageArtifacts(stage, hdl_code.entity_name)]}
              ELSE files

\* a variant that reports every failed stage with one fixed message
StageFailureFixedMessage(outcome, language) ==
  FailedResult(hdl_code.entity_name, language, <<"Compilation failed">>)

\* a stage that did not exit with status zero: the CompilationResult the except
\* clauses and the returncode test make of it
StageFailure(outcome, language) ==
  FailedResult(hdl_code.entity_name, language,
               IF outcome.kind = "timeout" THEN TimeoutMessage ELSE outcome.stderr)

\* a variant that collects what the compilers produced and not the source file
CollectedWithoutSource(onDisk, sid) ==
  {f \in onDisk : f.dir = BuildDir(sid) /\ f # SourceFile(hdl_code, sid)}

\* the build artifacts collected after the last stage: every regular file of the
\* build directory, in the order os.listdir gives
CollectedFiles(onDisk, sid) == {f \in onDisk : f.dir = BuildDir(sid)}

\* _compile_vhdl lines 393-411: ghdl -a
CompileAnalyze ==
  /\ pc = "c_analyze"
  /\ Call("analyze")
  /\ \E outcome \in StageOutcomes("analyze"), produced \in BOOLEAN :
       /\ runs' = Append(runs, [stage |-> "analyze", outcome |-> outcome])
       /\ IF outcome.kind = "exit" /\ outcome.returncode = 0
          THEN /\ StagePasses("analyze", outcome, produced)
               /\ pc' = "c_elaborate"
               /\ UNCHANGED <<compilation_result, compile_exit>>
          ELSE /\ CompileReturns(StageFailure(outcome, tag_vhdl))
               /\ UNCHANGED <<warnings, files>>
  /\ UNCHANGED <<connection_test, data, session_id, circuit_name, cleanup_temp_files, ai_response, hdl_code,
                 dirs, source_data, export_result, export_exit, archive, response>>

\* _compile_vhdl lines 413-446: ghdl -e, then the collection of the build files
CompileElaborate ==
  /\ pc = "c_elaborate"
  /\ Call("elaborate")
  /\ \E outcome \in StageOutcomes("elaborate"), produced \in BOOLEAN :
       /\ runs' = Append(runs, [stage |-> "elaborate", outcome |-> outcome])
       /\ IF outcome.kind = "exit" /\ outcome.returncode = 0
          THEN /\ StagePasses("elaborate", outcome, produced)
               /\ \E build_files \in Orderings(CollectedFiles(files', session_id)) :
                    CompileReturns(SuccessResult(hdl_code.entity_name, tag_vhdl,
                                                 build_files, warnings'))
          ELSE /\ CompileReturns(StageFailure(outcome, tag_vhdl))
               /\ UNCHANGED <<warnings, files>>
  /\ UNCHANGED <<connection_test, data, session_id, circuit_name, cleanup_temp_files, ai_response, hdl_code,
                 dirs, source_data, export_result, export_exit, archive, response>>

\* _compile_verilog lines 470-504: iverilog -o, then the collection of the build files
CompileVerilog ==
  /\ pc = "c_verilog"
  /\ Call("iverilog")
  /\ \E outcome \in StageOutcomes("iverilog"), produced \in BOOLEAN :
       /\ runs' = Append(runs, [stage |-> "iverilog", outcome |-> outcome])
       /\ IF outcome.kind = "exit" /\ outcome.returncode = 0
          THEN /\ StagePasses("iverilog", outcome, produced)
               /\ \E build_files \in Orderings(CollectedFiles(files', session_id)) :
                    CompileReturns(SuccessResult(hdl_code.entity_name, tag_verilog,
                                                 build_files, warnings'))
          ELSE /\ CompileReturns(StageFailure(outcome, tag_verilog))
               /\ UNCHANGED <<warnings, files>>
  /\ UNCHANGED <<connection_test, data, session_id, circuit_name, cleanup_temp_files, ai_response, hdl_code,
                 dirs, source_data, export_result, export_exit, archive, response>>

(***************************************************************************)
(* HDLProcessor.export_project, called at lines 327-337 of the handler.    *)
(***************************************************************************)
\* ProjectExport(success=True, ...) and ProjectExport(success=False, file_path="", ...)
ExportSuccess(path, size) ==
  [success |-> TRUE, file_path |-> Some(path), file_size |-> size, error_message |-> NoneOpt]

ExportFailure(e) ==
  [success |-> FALSE, file_path |-> NoneOpt, file_size |-> 0, error_message |-> Some(e)]

\* what the file system can do to one export_project call: everything works, the
\* os.makedirs of line 207 fails, or a step inside the try block fails
ExportOutcomes == {"ok", "makedirs_error", "io_error"}

\* lines 202-264 and the handler's lines 327-337: the archive is written, or an
\* I/O error inside the try block becomes a failed ProjectExport, which may leave
\* a partial archive file behind, or the os.makedirs in front of the try block
\* raises and the handler's except clause answers
ExportProject ==
  /\ pc = "export"
  /\ Call("export_project")
  /\ \E outcome \in ExportOutcomes, partial \in BOOLEAN :
       IF outcome = "ok"
       THEN /\ archive' = ExportMembers(hdl_code, compilation_result, session_id,
                                        files, source_data)
            /\ files' = files \cup {ProjectFile(hdl_code, ExportDir(session_id))}
            /\ export_result' = ExportSuccess(ProjectFile(hdl_code, ExportDir(session_id)),
                                              ArchiveSize(archive'))
            /\ export_exit' = "returned"
            /\ pc' = "send_file"
            /\ response' = response
       ELSE IF outcome = "io_error"
       THEN /\ archive' = archive
            /\ files' = IF partial
                        THEN files \cup {ProjectFile(hdl_code, ExportDir(session_id))}
                        ELSE files
            /\ export_result' = ExportFailure(<<"zip: I/O error">>)
            /\ export_exit' = "returned"
            /\ pc' = "finally"
            /\ response' = JsonError(500, <<"Failed to export project: ", "zip: I/O error">>)
       ELSE /\ UNCHANGED <<archive, files, export_result>>
            /\ export_exit' = "raised"
            /\ pc' = "finally"
            /\ response' = JsonError(500, <<"Failed to export project: ",
                                            "makedirs: Permission denied">>)
  /\ UNCHANGED <<connection_test, data, runs, session_id, circuit_name, cleanup_temp_files, ai_response, hdl_code,
                 dirs, source_data, warnings, compilation_result, compile_exit>>

\* lines 339-379: send_file opens the archive and the metadata headers are set; a
\* missing file raises into the outer except clause
SendFile ==
  /\ pc = "send_file"
  /\ Call("send_file")
  /\ response' = IF export_result.file_path[1] \in files
                 THEN FileResponse(export_result.file_path[1], circuit_name,
                                   compilation_result)
                 ELSE JsonError(500, <<"Internal server error: ", "file not found">>)
  /\ pc' = "finally"
  /\ UNCHANGED <<connection_test, data, runs, session_id, circuit_name, cleanup_temp_files, ai_response, hdl_code,
                 dirs, files, source_data, warnings, compilation_result,
                 compile_exit, export_result, export_exit, archive>>

\* lines 389-395: the finally clause removes the session directory when configured
Cleanup ==
  /\ pc = "finally"
  /\ IF cleanup_temp_files
     THEN /\ Call("rmtree")
          /\ dirs' = {d \in dirs : ~IsUnder(d, SessionDir(session_id))}
          /\ files' = {f \in files : ~IsUnder(f.dir, SessionDir(session_id))}
     ELSE UNCHANGED <<calls, dirs, files>>
  /\ pc' = "done"
  /\ UNCHANGED <<connection_test, data, runs, session_id, circuit_name, cleanup_temp_files, ai_response, hdl_code,
                 source_data, warnings, compilation_result, compile_exit,
                 export_result, export_exit, archive, response>>

\* line 379, return response: the handler hands the response made by send_file to
\* the HTTP layer, which streams the body to the client once the handler, its
\* finally clause included, has returned
StreamResponse ==
  /\ pc = "done"
  /\ response # NoValue /\ response.kind = "file"
  /\ Call("stream_body")
  /\ pc' = "streamed"
  /\ UNCHANGED <<connection_test, data, runs, session_id, circuit_name, cleanup_temp_files, ai_response, hdl_code,
                 dirs, files, source_data, warnings, compilation_result, compile_exit,
                 export_result, export_exit, archive, response>>

(***************************************************************************)
(* The /generate request.                                                  *)
(***************************************************************************)
Init == TextIdle /\ ReqIdle /\ ConcIdle

Next ==
  \/ (ValidateRequest /\ UNCHANGED <<text_vars, conc_vars>>)
  \/ (CreateSessionDirs /\ UNCHANGED <<text_vars, conc_vars>>)
  \/ (TestProviderConnection /\ UNCHANGED <<text_vars, conc_vars>>)
  \/ (CreateProvider /\ UNCHANGED <<text_vars, conc_vars>>)
  \/ (GenerateCode /\ UNCHANGED <<text_vars, conc_vars>>)
  \/ (ParseHdlCode /\ UNCHANGED <<text_vars, conc_vars>>)
  \/ (CompileMakeDir /\ UNCHANGED <<text_vars, conc_vars>>)
  \/ (CompileWriteSource /\ UNCHANGED <<text_vars, conc_vars>>)
  \/ (CompileAnalyze /\ UNCHANGED <<text_vars, conc_vars>>)
  \/ (CompileElaborate /\ UNCHANGED <<text_vars, conc_vars>>)
  \/ (CompileVerilog /\ UNCHANGED <<text_vars, conc_vars>>)
  \/ (ExportProject /\ UNCHANGED <<text_vars, conc_vars>>)
  \/ (SendFile /\ UNCHANGED <<text_vars, conc_vars>>)
  \/ (Cleanup /\ UNCHANGED <<text_vars, conc_vars>>)
  \/ (StreamResponse /\ UNCHANGED <<text_vars, conc_vars>>)

Spec == Init /\ [][Next]_vars

(***************************************************************************)
(* The text functions on their own: the arguments are drawn from bounded   *)
(* sets of texts built from fragments, and one action applies the          *)
(* function.                                                               *)
(***************************************************************************)
\* every concatenation of at most n fragments of F
RECURSIVE Texts(_, _)
Texts(F, n) ==
  IF n = 0 THEN {<<>>}
  ELSE Texts(F, n - 1) \cup {t \o f : t \in Texts(F, n - 1), f \in F}

\* the request part of the state while a text function is under test
ReqFixed ==
  /\ ReqIdle
  /\ session_id = "s1"
  /\ data = GoodRequest(n_bar)
  /\ cleanup_temp_files = TRUE

(***************************************************************************)
(* _replace_entity_name as parse_hdl_code calls it (line 109-110): with a   *)
(* new name that differs from the old one.                                 *)
(***************************************************************************)
MaxRewriteFrags == 3

RewriteFrags ==
  { kw_entity \o sp \o n_foo \o sp \o kw_is,
    <<"E","n","t","i","t","y"," "," ","F","O","O","\t","I","s">>,
    kw_entity \o sp \o n_foobar \o sp \o kw_is,
    kw_architecture \o sp \o n_rtl \o sp \o kw_of \o sp \o n_foo \o sp \o kw_is,
    kw_architecture \o sp \o n_rtl \o sp \o kw_of \o sp \o n_foobar \o sp \o kw_is,
    kw_module \o sp \o n_foo,
    kw_module \o sp \o n_foobar,
    <<"x">>,
    <<"\n">> }

RewriteOldNames == {n_foo}
RewriteNewNames == {n_bar, n_FOO, n_my_and}

InitRewrite ==
  /\ ReqFixed
  /\ ConcIdle
  /\ f_pc = "_replace_entity_name"
  /\ f_out = NoValue
  /\ f_in \in [code : Texts(RewriteFrags, MaxRewriteFrags), old_name : RewriteOldNames,
               new_name : RewriteNewNames, language : {tag_vhdl, tag_verilog}]
  /\ f_in.old_name # f_in.new_name

CallReplaceEntityName ==
  /\ f_pc = "_replace_entity_name"
  /\ f_out' = [code |-> _replace_entity_name(f_in.code, f_in.old_name, f_in.new_name,
                                             f_in.language)]
  /\ f_pc' = "replaced"
  /\ UNCHANGED f_in

NextRewrite == CallReplaceEntityName /\ UNCHANGED <<req_vars, conc_vars>>

SpecRewrite == InitRewrite /\ [][NextRewrite]_vars

(***************************************************************************)
(* parse_hdl_code on AI responses: a body of fragments, bare or inside a   *)
(* fenced block.                                                           *)
(***************************************************************************)
MaxParseFrags == 3

ParseFrags ==
  { kw_entity \o sp \o n_foo \o sp \o kw_is \o nl,
    kw_architecture \o sp \o n_rtl \o sp \o kw_of \o sp \o n_foo \o sp \o kw_is \o nl,
    <<"e","n","d"," ","f","o","o",";","\n">>,
    kw_module \o sp \o n_foo \o <<"(">>,
    <<"M","o","d","u","l","e"," "," ">> \o n_FOO \o <<";">>,
    nl \o kw_module \o sp \o n_FOO \o <<";">>,
    <<"/","/"," ">> \o kw_module \o sp \o n_foo \o nl,
    kw_endmodule }

ParseWrappers == {<<>>, tag_vhdl, tag_verilog}

\* the body as the AI response carries it
Wrap(w, body) == IF w = <<>> THEN body ELSE fence \o w \o nl \o body \o nl_fence

ParseNames == {n_bar, n_foo, n_my_and}

InitParse ==
  /\ ReqFixed
  /\ ConcIdle
  /\ f_pc = "parse_hdl_code"
  /\ f_out = NoValue
  /\ \E w \in ParseWrappers, body \in Texts(ParseFrags, MaxParseFrags), name \in ParseNames :
       f_in = [ai_response_content |-> Wrap(w, body), circuit_name |-> name]

CallParseHdlCode ==
  /\ f_pc = "parse_hdl_code"
  /\ f_out' = parse_hdl_code(f_in.ai_response_content, f_in.circuit_name)
  /\ f_pc' = "parsed"
  /\ UNCHANGED f_in

NextParse == CallParseHdlCode /\ UNCHANGED <<req_vars, conc_vars>>

SpecParse == InitParse /\ [][NextParse]_vars

(***************************************************************************)
(* _extract_code_and_language on texts with fences.                        *)
(***************************************************************************)
MaxExtractFrags == 4

ExtractFrags ==
  { fence \o tag_vhdl \o nl,
    fence \o <<"S","y","s","t","e","m","V","e","r","i","l","o","g"," ">> \o nl,
    fence \o tag_verilog,
    nl,
    nl_fence,
    <<" ","x"," ">>,
    kw_entity,
    <<"W","i","r","e">>,
    fence \o <<LongS>> \o Tail(tag_systemverilog) \o nl }

InitExtract ==
  /\ ReqFixed
  /\ ConcIdle
  /\ f_pc = "_extract_code_and_language"
  /\ f_out = NoValue
  /\ f_in \in [content : Texts(ExtractFrags, MaxExtractFrags)]

CallExtractCodeAndLanguage ==
  /\ f_pc = "_extract_code_and_language"
  /\ f_out' = _extract_code_and_language(f_in.content)
  /\ f_pc' = "extracted"
  /\ UNCHANGED f_in

NextExtract == CallExtractCodeAndLanguage /\ UNCHANGED <<req_vars, conc_vars>>

SpecExtract == InitExtract /\ [][NextExtract]_vars

(***************************************************************************)
(* export_project as a function of its arguments and of the files on disk: *)
(* any HDLCode, any CompilationResult a caller can build, any subset of    *)
(* the build directory present.                                            *)
(***************************************************************************)
MaxBuildFiles == 2

ExportCodes ==
  { [ok |-> TRUE, language |-> tag_vhdl, content |-> kw_entity \o sp \o n_bar,
     entity_name |-> n_bar, file_extension |-> tag_vhdl, original_name |-> n_foo],
    [ok |-> TRUE, language |-> tag_verilog, content |-> kw_module \o sp \o n_bar,
     entity_name |-> n_bar, file_extension |-> ext_v, original_name |-> n_bar] }

\* the files the build directory may hold for code
BuildDirFiles(code, sid) ==
  {SourceFile(code, sid)} \cup
  {[dir |-> BuildDir(sid), name |-> StageArtifacts(stage, code.entity_name)] :
     stage \in {"analyze", "elaborate"}}

\* the lists of at most n files of S, none twice
FileLists(S, n) == UNION {{q \in [1..k -> S] : \A i, j \in 1..k : q[i] = q[j] => i = j} : k \in 0..n}

\* the CompilationResult values over the files of S
ExportResults(code, S) ==
  {[success |-> TRUE, entity_name |-> code.entity_name, language |-> code.language,
    build_files |-> bf, error_message |-> NoneOpt, warnings |-> Some(<<>>)] :
     bf \in FileLists(S, MaxBuildFiles)}
  \cup
  {[success |-> FALSE, entity_name |-> code.entity_name, language |-> code.language,
    build_files |-> bf, error_message |-> Some(<<"analyze", ": error">>),
    warnings |-> NoneOpt] : bf \in FileLists(S, MaxBuildFiles)}

InitExport ==
  /\ ReqFixed
  /\ ConcIdle
  /\ f_pc = "export_project"
  /\ f_out = NoValue
  /\ \E code \in ExportCodes :
       \E result \in ExportResults(code, BuildDirFiles(code, session_id)),
          onDisk \in SUBSET BuildDirFiles(code, session_id) :
         f_in = [hdl_code |-> code, compilation_result |-> result, onDisk |-> onDisk]

\* export_project(hdl_code, compilation_result, export_dir, session_id): how the
\* call ends, the ProjectExport it returns and the members of the archive written
CallExportProject ==
  /\ f_pc = "export_project"
  /\ \E outcome \in ExportOutcomes :
       f_out' =
         IF outcome = "ok"
         THEN LET members == ExportMembers(f_in.hdl_code, f_in.compilation_result,
                                           session_id, f_in.onDisk, f_in.hdl_code.content)
              IN  [exit |-> "returned", members |-> members,
                   result |-> ExportSuccess(ProjectFile(f_in.hdl_code, ExportDir(session_id)),
                                            ArchiveSize(members))]
         ELSE IF outcome = "io_error"
         THEN [exit |-> "returned", members |-> <<>>,
               result |-> ExportFailure(<<"zip: I/O error">>)]
         ELSE [exit |-> "raised", members |-> <<>>, result |-> NoValue]
  /\ f_pc' = "exported"
  /\ UNCHANGED f_in

NextExport == CallExportProject /\ UNCHANGED <<req_vars, conc_vars>>

SpecExport == InitExport /\ [][NextExport]_vars

(***************************************************************************)
(* The provider connection test as a function of the provider type, the    *)
(* configuration dictionary and what the network and the provider do.      *)
(***************************************************************************)
InitProvider ==
  /\ ReqFixed
  /\ ConcIdle
  /\ f_pc = "test_provider_connection"
  /\ f_out = NoValue
  /\ f_in \in [provider_type : ProviderTypes, config : ProviderConfigs,
               net : NetOutcomes, other : OtherBehaviours]

\* ProviderFactory.test_provider_connection(provider_type, config), and
\* test_connection of the AzureOpenAIProvider made from the same configuration
CallTestProviderConnection ==
  /\ f_pc = "test_provider_connection"
  /\ f_out' = [factory |-> test_provider_connection(f_in.provider_type, f_in.config,
                                                    f_in.net, f_in.other),
               azure |-> IF AzureCreateFromDict(f_in.config).exit = "returned"
                         THEN test_connection(AzureCreateFromDict(f_in.config).value, f_in.net)
                         ELSE NoValue]
  /\ f_pc' = "tested"
  /\ UNCHANGED f_in

NextProvider == CallTestProviderConnection /\ UNCHANGED <<req_vars, conc_vars>>

SpecProvider == InitProvider /\ [][NextProvider]_vars

(***************************************************************************)
(* _detect_testbench as a function of the code and the language.           *)
(***************************************************************************)
MaxTestbenchFrags == 3

TestbenchFrags ==
  { <<"t">>, <<"b">>, <<"_">>, <<"T","E","S","T">>, <<"b","e","n","c","h">>,
    m_initial, m_monitor, <<"x"," ">> }

InitTestbench ==
  /\ ReqFixed
  /\ ConcIdle
  /\ f_pc = "_detect_testbench"
  /\ f_out = NoValue
  /\ f_in \in [code : Texts(TestbenchFrags, MaxTestbenchFrags),
               language : {tag_vhdl, tag_verilog}]

CallDetectTestbench ==
  /\ f_pc = "_detect_testbench"
  /\ f_out' = [has_testbench |-> _detect_testbench(f_in.code, f_in.language)]
  /\ f_pc' = "detected"
  /\ UNCHANGED f_in

NextTestbench == CallDetectTestbench /\ UNCHANGED <<req_vars, conc_vars>>

SpecTestbench == InitTestbench /\ [][NextTestbench]_vars

(***************************************************************************)
(* parse_hdl_code on texts without a fence: keywords in ASCII and keywords  *)
(* written with U+0131, which re.IGNORECASE matches with i and str.lower()  *)
(* leaves as it is.                                                         *)
(***************************************************************************)
MaxDefaultFrags == 3

DefaultFrags ==
  { <<"e","n","t",DotlessI,"t","y">> \o sp \o n_foo \o sp \o kw_is \o nl,
    <<"a","r","c","h",DotlessI,"t","e","c","t","u","r","e">> \o sp \o n_rtl \o sp \o kw_of
       \o sp \o n_foo \o sp \o kw_is \o nl,
    kw_entity \o sp \o n_foo \o sp \o kw_is \o nl,
    kw_module \o sp \o n_foo \o nl,
    <<"h","e","l","l","o"," ">>,
    nl }

InitDefault ==
  /\ ReqFixed
  /\ ConcIdle
  /\ f_pc = "parse_hdl_code"
  /\ f_out = NoValue
  /\ \E body \in Texts(DefaultFrags, MaxDefaultFrags), name \in {n_bar, n_foo} :
       f_in = [ai_response_content |-> body, circuit_name |-> name]

SpecDefault == InitDefault /\ [][NextParse]_vars

(***************************************************************************)
(* validate_circuit_name and sanitize_circuit_name as functions of the     *)
(* circuit name of the request.                                            *)
(***************************************************************************)
MaxNameFrags == 3

NameFrags ==
  { <<"_">>, <<"-">>, <<"a">>, <<"1">>, <<"e","n","d">>, <<"A","n","d">>, nl, dot,
    [k \in 1..49 |-> "x"] }

InitName ==
  /\ ReqFixed
  /\ ConcIdle
  /\ f_pc = "circuit_name"
  /\ f_out = NoValue
  /\ f_in \in [circuit_name : Texts(NameFrags, MaxNameFrags)]

\* app.py lines 244-250: validate_request_data checks the name, and
\* sanitize_circuit_name gives the entity name
CallSanitizeCircuitName ==
  /\ f_pc = "circuit_name"
  /\ f_out' = [validation |-> validate_circuit_name(JStr(f_in.circuit_name)),
               entity_name |-> sanitize_circuit_name(f_in.circuit_name)]
  /\ f_pc' = "sanitized"
  /\ UNCHANGED f_in

NextName == CallSanitizeCircuitName /\ UNCHANGED <<req_vars, conc_vars>>

SpecName == InitName /\ [][NextName]_vars

(***************************************************************************)
(* Two /generate requests in flight at once (app.run(threaded=True)): the   *)
(* steps of the handler that touch the file system, interleaved in every    *)
(* order.  A file on disk is [dir, name, by], by being the request that     *)
(* wrote it; a path is the file without its writer, or a directory.         *)
(***************************************************************************)
Requests == {1, 2}

\* the HDLCode of request r, as far as the paths depend on it
ConcCode(r) ==
  [entity_name |-> c_req[r].name,
   file_extension |-> IF c_req[r].language = tag_vhdl THEN tag_vhdl ELSE ext_v]

PathOf(f) == [dir |-> f.dir, name |-> f.name]

\* the path of a directory
DirPath(d) == [dir |-> d, name |-> <<>>]

\* open(path, 'w') by request r: the file is created or replaced
WriteFiles(onDisk, paths, r) ==
  {f \in onDisk : PathOf(f) \notin paths} \cup {[dir |-> q.dir, name |-> q.name, by |-> r] : q \in paths}

\* request r moves to position to, having touched paths, and the disk is now disk
ConcStep(r, to, paths, disk, change) ==
  /\ c_req' = [c_req EXCEPT ![r] = [change EXCEPT !.pc = to,
                                                  !.touched = c_req[r].touched \cup paths]]
  /\ c_disk' = disk

\* line 235: session_id = str(uuid.uuid4()), one per request; circuit name and
\* language are the client's and the provider's choice
InitConcurrent ==
  /\ TextIdle
  /\ ReqIdle /\ session_id = "s1" /\ data = GoodRequest(n_bar)
  /\ c_disk = [dirs |-> {<<"work">>, <<"temp">>}, files |-> {}]
  /\ \E sid \in [Requests -> SessionIds], name \in [Requests -> CircuitNames],
        language \in [Requests -> {tag_vhdl, tag_verilog}] :
       /\ \A r1, r2 \in Requests : sid[r1] = sid[r2] => r1 = r2
       /\ c_req = [r \in Requests |->
                     [pc |-> "session_dirs", sid |-> sid[r], name |-> name[r],
                      language |-> language[r], touched |-> {}, success |-> FALSE,
                      build_files |-> {}, archive |-> {}]]

\* app.py lines 259-266
ConcCreateSessionDirs(r) ==
  /\ c_req[r].pc = "session_dirs"
  /\ LET made == {SessionDir(c_req[r].sid), GeneratedDir(c_req[r].sid),
                  SessionBuildDir(c_req[r].sid), ExportDir(c_req[r].sid)}
     IN  ConcStep(r, "compile", {DirPath(d) : d \in made}, [c_disk EXCEPT !.dirs = @ \cup made], c_req[r])

\* compile_hdl lines 151-158: the build directory and the source file
ConcWriteSource(r) ==
  /\ c_req[r].pc = "compile"
  /\ LET src == SourceFile(ConcCode(r), c_req[r].sid)
     IN  ConcStep(r, "stages", {DirPath(BuildDir(c_req[r].sid)), src},
                  [dirs  |-> c_disk.dirs \cup {BuildDir(c_req[r].sid)},
                   files |-> WriteFiles(c_disk.files, {src}, r)],
                  c_req[r])

\* _compile_vhdl / _compile_verilog: the compilers read the source file and leave
\* their artifacts where the commands tell them to, --workdir={build_dir} and
\* -o {build_dir}/{entity_name}.out; on success the build directory is listed
ConcRunStages(r) ==
  /\ c_req[r].pc = "stages"
  /\ \E success \in BOOLEAN :
       LET src    == SourceFile(ConcCode(r), c_req[r].sid)
           stages == IF c_req[r].language = tag_vhdl THEN {"analyze", "elaborate"}
                     ELSE {"iverilog"}
           made   == IF success
                     THEN {[dir |-> BuildDir(c_req[r].sid),
                            name |-> StageArtifacts(stage, c_req[r].name)] : stage \in stages}
                     ELSE {}
           after  == WriteFiles(c_disk.files, made, r)
           listed == IF success THEN CollectedFiles(after, c_req[r].sid) ELSE {}
       IN  ConcStep(r, "export", {src} \cup made \cup {PathOf(f) : f \in listed},
                    [c_disk EXCEPT !.files = after],
                    [c_req[r] EXCEPT !.success = success, !.build_files = listed])

\* export_project lines 211-242: the source file and, after a successful
\* compilation, the build files that exist are copied into the archive
ConcExport(r) ==
  /\ c_req[r].pc = "export"
  /\ LET src     == SourceFile(ConcCode(r), c_req[r].sid)
         project == ProjectFile(ConcCode(r), ExportDir(c_req[r].sid))
         wanted  == {src} \cup {PathOf(f) : f \in c_req[r].build_files}
         read    == {f \in c_disk.files : PathOf(f) \in wanted}
     IN  ConcStep(r, "send_file", wanted \cup {project},
                  [c_disk EXCEPT !.files = WriteFiles(@, {project}, r)],
                  [c_req[r] EXCEPT !.archive = {[name |-> f.name, by |-> f.by] : f \in read}])

\* app.py lines 366-371: send_file opens the archive
ConcSendFile(r) ==
  /\ c_req[r].pc = "send_file"
  /\ ConcStep(r, "finally", {ProjectFile(ConcCode(r), ExportDir(c_req[r].sid))},
              c_disk, c_req[r])

\* app.py lines 389-395: shutil.rmtree(session_dir)
ConcCleanup(r) ==
  /\ c_req[r].pc = "finally"
  /\ LET root == SessionDir(c_req[r].sid)
         gone == {DirPath(d) : d \in {e \in c_disk.dirs : IsUnder(e, root)}}
                   \cup {PathOf(f) : f \in {g \in c_disk.files : IsUnder(g.dir, root)}}
     IN  ConcStep(r, "done", IF cleanup_temp_files THEN gone ELSE {},
                  IF cleanup_temp_files
                  THEN [dirs  |-> {d \in c_disk.dirs : ~IsUnder(d, root)},
                        files |-> {f \in c_disk.files : ~IsUnder(f.dir, root)}]
                  ELSE c_disk,
                  c_req[r])

NextConcurrent ==
  /\ \E r \in Requests :
       \/ ConcCreateSessionDirs(r)
       \/ ConcWriteSource(r)
       \/ ConcRunStages(r)
       \/ ConcExport(r)
       \/ ConcSendFile(r)
       \/ ConcCleanup(r)
  /\ UNCHANGED <<text_vars, req_vars>>

SpecConcurrent == InitConcurrent /\ [][NextConcurrent]_vars

(***************************************************************************)
(* Declaration sites, read off the tokens of a text.  A token is a longest *)
(* run of characters of one class; a declaration site is a window of       *)
(* tokens: entity NAME is, architecture ARCH of NAME is, module NAME, the  *)
(* keywords in any letter case and the tokens separated by white space.    *)
(***************************************************************************)
Cls(c) == IF IsWord(c) THEN "word" ELSE IF IsSpace(c) THEN "space" ELSE "other"

TokStart(s, i) == i \in 1..Len(s) /\ (i = 1 \/ Cls(s[i-1]) # Cls(s[i]))

\* the position after the token that starts at i
TokEnd(s, i) ==
  IF i > Len(s) THEN i
  ELSE CHOOSE j \in (i+1)..(Len(s)+1) :
         /\ j = Len(s) + 1 \/ Cls(s[j]) # Cls(s[i])
         /\ \A k \in (i+1)..(j-1) : Cls(s[k]) = Cls(s[i])

Tok(s, i) == SubSeq(s, i, TokEnd(s, i) - 1)

\* the start of the n-th token after the one at i
RECURSIVE TokAfter(_, _, _)
TokAfter(s, i, n) == IF n = 0 THEN i ELSE TokAfter(s, TokEnd(s, i), n - 1)

IsClsAt(s, i, cls) == i \in 1..Len(s) /\ Cls(s[i]) = cls

\* a word token that is the keyword kw, letter case ignored
IsKwTok(s, i, kw) == IsClsAt(s, i, "word") /\ LowerStr(Tok(s, i)) = kw

\* a word token that begins with the keyword kw, letter case ignored
BeginsKwTok(s, i, kw) ==
  /\ IsClsAt(s, i, "word")
  /\ Len(Tok(s, i)) >= Len(kw)
  /\ LowerStr(SubSeq(Tok(s, i), 1, Len(kw))) = kw

\* do the tokens from i on read: word, space, word, space, ... for n words
RECURSIVE WordsSpaced(_, _, _)
WordsSpaced(s, i, n) ==
  /\ IsClsAt(s, i, "word")
  /\ (n > 1 => IsClsAt(s, TokEnd(s, i), "space") /\ WordsSpaced(s, TokAfter(s, i, 2), n - 1))

\* the declaration sites of a text: [kind, a, b, name, arch], the site being s[a..b-1]
EntitySites(s) ==
  { [kind |-> "entity", a |-> i, b |-> TokAfter(s, i, 4) + Len(kw_is),
     name |-> Tok(s, TokAfter(s, i, 2)), arch |-> <<>>] :
    i \in { j \in 1..Len(s) : /\ TokStart(s, j) /\ IsKwTok(s, j, kw_entity)
                              /\ WordsSpaced(s, j, 3)
                              /\ BeginsKwTok(s, TokAfter(s, j, 4), kw_is) } }

ArchSites(s) ==
  { [kind |-> "architecture", a |-> i, b |-> TokAfter(s, i, 8) + Len(kw_is),
     name |-> Tok(s, TokAfter(s, i, 6)), arch |-> Tok(s, TokAfter(s, i, 2))] :
    i \in { j \in 1..Len(s) : /\ TokStart(s, j) /\ IsKwTok(s, j, kw_architecture)
                              /\ WordsSpaced(s, j, 5)
                              /\ IsKwTok(s, TokAfter(s, j, 4), kw_of)
                              /\ BeginsKwTok(s, TokAfter(s, j, 8), kw_is) } }

ModuleSites(s) ==
  { [kind |-> "module", a |-> i, b |-> TokAfter(s, i, 3),
     name |-> Tok(s, TokAfter(s, i, 2)), arch |-> <<>>] :
    i \in { j \in 1..Len(s) : /\ TokStart(s, j) /\ IsKwTok(s, j, kw_module)
                              /\ WordsSpaced(s, j, 2) } }

DeclSites(s, language) ==
  IF language = tag_vhdl THEN EntitySites(s) \cup ArchSites(s)
  ELSE IF language = tag_verilog THEN ModuleSites(s)
  ELSE {}

SameName(x, y) == LowerStr(x) = LowerStr(y)

\* the declaration sites that name old, in any letter case
SitesNaming(s, language, old) == {m \in DeclSites(s, language) : SameName(m.name, old)}

\* the text of a declaration of kind, architecture arch, naming name
DeclText(kind, arch, name) ==
  IF kind = "entity" THEN <<"e","n","t","i","t","y"," ">> \o name \o <<" ","i","s">>
  ELSE IF kind = "architecture"
  THEN <<"a","r","c","h","i","t","e","c","t","u","r","e"," ">> \o arch
         \o <<" ","o","f"," ">> \o name \o <<" ","i","s">>
  ELSE <<"m","o","d","u","l","e"," ">> \o name

\* the text contains, at a word boundary, the declaration text
HasDeclText(s, kind, arch, name) ==
  \E i \in 1..Len(s) : WordBoundary(s, i) /\ ExactAt(s, i, DeclText(kind, arch, name))

\* the growth of the text when every site of S is replaced by its declaration
\* text naming new
RECURSIVE Growth(_, _)
Growth(S, new) ==
  IF S = {} THEN 0
  ELSE LET m == CHOOSE x \in S : TRUE
       IN  Len(DeclText(m.kind, m.arch, new)) - (m.b - m.a) + Growth(S \ {m}, new)

\* how far position p of the input has moved in the output, when every site of
\* sites has been replaced by its declaration text naming new
Shift(sites, new, p) == Growth({m \in sites : m.b <= p}, new)

\* the output is the input outside the sites
FrameHolds(in, out, sites, new) ==
  /\ Len(out) = Len(in) + Shift(sites, new, Len(in) + 1)
  /\ \A p \in 1..Len(in) :
       (~\E m \in sites : m.a <= p /\ p < m.b)
         => /\ p + Shift(sites, new, p) \in 1..Len(out)
            /\ out[p + Shift(sites, new, p)] = in[p]

\* at every site the output reads the declaration text naming new
SitesRenamed(out, sites, new) ==
  \A m \in sites :
    ExactAt(out, m.a + Shift(sites, new, m.a), DeclText(m.kind, m.arch, new))

\* the identifiers (word tokens) of a text
Identifiers(s) == {Tok(s, i) : i \in {j \in 1..Len(s) : TokStart(s, j) /\ IsWord(s[j])}}

(***************************************************************************)
(* Fenced blocks, read off the text.                                       *)
(***************************************************************************)
BlockTags == {tag_vhdl, tag_verilog, tag_systemverilog}

\* the positions where a fence with one of the three tags opens
\* the text at i reads tag, in any letter case
TagAt(t, i, tag) == ExactAt(LowerStr(t), i, tag)

TaggedFences(t) ==
  {i \in 1..Len(t) : ExactAt(t, i, fence) /\ \E tag \in BlockTags : TagAt(t, i + Len(fence), tag)}

TagOfFence(t, i) == CHOOSE tag \in BlockTags : TagAt(t, i + Len(fence), tag)

\* the newlines that can end the opening line of the fence at i: only white
\* space lies between the tag and such a newline
OpeningNewlines(t, i) ==
  LET a == i + Len(fence) + Len(TagOfFence(t, i))
  IN  {n \in a..Len(t) : t[n] = "\n" /\ \A k \in a..n : IsSpace(t[k])}

\* the closing fences after position n: a newline followed by three grave accents
ClosingFences(t, n) == {j \in (n+1)..Len(t) : ExactAt(t, j, nl_fence)}

\* the tagged fences that open a block: a closing fence follows the opening line
BlockStarts(t) ==
  {i \in TaggedFences(t) : \E n \in OpeningNewlines(t, i) : ClosingFences(t, n) # {}}

FirstBlock(t) == Min(BlockStarts(t))

\* the inner text of the first block: from the end of the opening line to the
\* first closing fence
FirstBlockInner(t) ==
  LET n == Min(OpeningNewlines(t, FirstBlock(t)))
  IN  SubSeq(t, n + 1, Min(ClosingFences(t, n)) - 1)

\* x is t without its leading and trailing white space
IsStripOf(x, t) ==
  /\ x = <<>> \/ (~IsSpace(x[1]) /\ ~IsSpace(x[Len(x)]))
  /\ \E a \in 0..(Len(t) - Len(x)) :
       /\ \A k \in 1..Len(x) : t[a + k] = x[k]
       /\ \A k \in 1..a : IsSpace(t[k])
       /\ \A k \in (a + Len(x) + 1)..Len(t) : IsSpace(t[k])

FoldedTag(tag) == IF tag = tag_vhdl THEN tag_vhdl ELSE tag_verilog

(***************************************************************************)
(* Properties of the text functions.                                       *)
(***************************************************************************)
Parsed   == f_pc = "parsed" /\ f_out.ok
Replaced == f_pc = "replaced"

\* C5: after every successful parse_hdl_code(text, name), entity_name equals name
\* and the top-level declaration of the returned content carries that name:
\* _extract_entity_name of the returned content and language yields entity_name.
C5_EntityNameIsTopLevelDeclaration ==
  Parsed =>
    /\ f_out.entity_name = f_in.circuit_name
    /\ _extract_entity_name(f_out.content, f_out.language) = f_out.entity_name

\* C6 as claimed: after a successful parse in which the original top-level
\* identifier differs from the requested name, the returned content holds no
\* occurrence of the original identifier.
C6_NoOccurrenceOfOriginal ==
  (Parsed /\ f_out.original_name # f_in.circuit_name)
    => f_out.original_name \notin Identifiers(f_out.content)

\* C6 as amended: after a successful parse that rewrote the name, every declaration
\* site that named the original identifier reads, in the returned content, the same
\* declaration naming the requested name.
C6_DeclarationSitesRenamed ==
  (Parsed /\ f_out.rewritten)
    => SitesRenamed(f_out.content,
                    SitesNaming(f_out.cleaned, f_out.language, f_out.original_name),
                    f_in.circuit_name)

\* a parse that renamed a declaration site and left the original identifier in the body
C6_Witness ==
  /\ Parsed /\ f_out.rewritten
  /\ SitesNaming(f_out.cleaned, f_out.language, f_out.original_name) # {}
  /\ f_out.original_name \in Identifiers(f_out.content)

\* the precondition of C7: the code has an entity declaration and an architecture
\* declaration naming old
C7_Pre ==
  /\ Replaced /\ f_in.language = tag_vhdl
  /\ \E m \in SitesNaming(f_in.code, tag_vhdl, f_in.old_name) : m.kind = "entity"
  /\ \E m \in SitesNaming(f_in.code, tag_vhdl, f_in.old_name) : m.kind = "architecture"

\* C7: for VHDL code with `entity old is` and `architecture arch of old is`, the
\* result of _replace_entity_name contains `entity new is` and, for each such
\* architecture, `architecture arch of new is` with its architecture name, and no
\* entity or architecture declaration of the result still names old.
C7_VhdlDeclarationsRenamed ==
  C7_Pre =>
    /\ HasDeclText(f_out.code, "entity", <<>>, f_in.new_name)
    /\ \A m \in SitesNaming(f_in.code, tag_vhdl, f_in.old_name) :
         m.kind = "architecture" => HasDeclText(f_out.code, "architecture", m.arch, f_in.new_name)
    /\ \A m \in SitesNaming(f_out.code, tag_vhdl, f_in.old_name) : m.name = f_in.new_name

\* a rewrite of VHDL code whose declarations name old in another letter case
C7_Witness ==
  /\ C7_Pre
  /\ \E m \in SitesNaming(f_in.code, tag_vhdl, f_in.old_name) : m.name # f_in.old_name
  /\ f_out.code # f_in.code

\* C8: _replace_entity_name changes text only inside the declaration sites naming
\* old (keywords and old in any letter case, as the patterns match them): outside
\* them the result is the input, so an identifier that has old as a proper prefix,
\* also right after entity, of or module, is unchanged.
C8_OnlyDeclarationSitesChange ==
  Replaced =>
    FrameHolds(f_in.code, f_out.code,
               SitesNaming(f_in.code, f_in.language, f_in.old_name), f_in.new_name)

\* a rewrite of a text that has a declaration site naming old and a declaration of
\* an identifier that has old as a proper prefix
C8_Witness ==
  /\ Replaced
  /\ SitesNaming(f_in.code, f_in.language, f_in.old_name) # {}
  /\ \E m \in DeclSites(f_in.code, f_in.language) :
       /\ Len(m.name) > Len(f_in.old_name)
       /\ SameName(SubSeq(m.name, 1, Len(f_in.old_name)), f_in.old_name)
  /\ f_out.code # f_in.code

\* a module declaration naming name, the keyword in any letter case
ModuleDeclPresent(s, name) ==
  \E m \in ModuleSites(s) : ExactAt(s, TokAfter(s, m.a, 2), name)

EndmodulePresent(s) == \E i \in 1..Len(s) : TokStart(s, i) /\ IsKwTok(s, i, kw_endmodule)

ParsedVerilog == Parsed /\ f_out.language = tag_verilog

\* the sites of the original name in the normalized input, none when parse_hdl_code
\* did not rewrite
C9_Sites ==
  IF f_out.rewritten
  THEN SitesNaming(f_out.cleaned, tag_verilog, f_out.original_name)
  ELSE {}

\* C9: for Verilog the returned content contains `module requested` and
\* endmodule, and is the normalized input everywhere outside the declaration site
\* of the design's module, the first `module old`.
C9_OnlyDesignModuleRewritten ==
  ParsedVerilog =>
    /\ ModuleDeclPresent(f_out.content, f_in.circuit_name)
    /\ EndmodulePresent(f_out.content)
    /\ FrameHolds(f_out.cleaned, f_out.content,
                  {m \in C9_Sites : \A o \in C9_Sites : m.a <= o.a}, f_in.circuit_name)

Extracted == f_pc = "extracted"

\* C10: for a text with a fenced block tagged vhdl, verilog or
\* systemverilog, the code is exactly the inner text of the first such block and
\* the language is its tag, systemverilog folded into verilog.
C10_ExactInnerText ==
  (Extracted /\ BlockStarts(f_in.content) # {}) =>
    /\ f_out.language = FoldedTag(TagOfFence(f_in.content, FirstBlock(f_in.content)))
    /\ f_out.code = FirstBlockInner(f_in.content)

\* the statement of C10 read up to the white space around the inner text: the code
\* is the inner text of the first block without its leading and trailing white space
C10_InnerTextUpToWhiteSpace ==
  (Extracted /\ BlockStarts(f_in.content) # {}) =>
    /\ f_out.language = FoldedTag(TagOfFence(f_in.content, FirstBlock(f_in.content)))
    /\ IsStripOf(f_out.code, FirstBlockInner(f_in.content))

\* the text holds one of the keywords the extraction looks for, in any letter case
HasHdlKeyword(t) ==
  \E k \in VhdlKeywords \cup VerilogKeywords : Contains(LowerStr(t), k)

\* C11: _extract_code_and_language returns, for every input, a language that is
\* vhdl or verilog; for an input without a tagged fenced block and without any of
\* the VHDL or Verilog keywords it returns vhdl with the full input as code.
C11_TotalWithVhdlDefault ==
  Extracted =>
    /\ f_out.language \in {tag_vhdl, tag_verilog}
    /\ (BlockStarts(f_in.content) = {} /\ ~HasHdlKeyword(f_in.content)) =>
         /\ f_out.language = tag_vhdl
         /\ f_out.code = f_in.content

\* parse_hdl_code raised the ValueError with this message, before any rewrite
RejectedWith(message) ==
  /\ ~f_out.ok /\ f_out.error = message
  /\ ~f_out.rewritten /\ f_out.content = <<>>

\* C12: parse_hdl_code raises, with the message naming the missing construct and
\* before any rewrite, for VHDL code without an `entity <name> is` or without an
\* `architecture <name2> of <name> is` declaration and for Verilog code without a
\* `module <name>` declaration or without the endmodule token; it accepts code
\* that has both constructs of its language.
C12_SyntaxGate ==
  f_pc = "parsed" =>
    /\ (f_out.language = tag_vhdl /\ EntitySites(f_out.cleaned) = {})
         => RejectedWith("VHDL code must contain an entity declaration")
    /\ (f_out.language = tag_vhdl /\ EntitySites(f_out.cleaned) # {}
                                   /\ ArchSites(f_out.cleaned) = {})
         => RejectedWith("VHDL code must contain an architecture declaration")
    /\ (f_out.language = tag_verilog /\ ModuleSites(f_out.cleaned) = {})
         => RejectedWith("Verilog code must contain a module declaration")
    /\ (f_out.language = tag_verilog /\ ModuleSites(f_out.cleaned) # {}
                                      /\ ~EndmodulePresent(f_out.cleaned))
         => RejectedWith("Verilog code must contain an endmodule statement")
    /\ (f_out.language = tag_vhdl /\ EntitySites(f_out.cleaned) # {}
                                   /\ ArchSites(f_out.cleaned) # {}) => f_out.ok
    /\ (f_out.language = tag_verilog /\ ModuleSites(f_out.cleaned) # {}
                                      /\ EndmodulePresent(f_out.cleaned)) => f_out.ok

\* a parse of Verilog code that declares a module under another name than the
\* requested one, has no endmodule token, and was rejected
C12_Witness ==
  /\ f_pc = "parsed" /\ f_out.language = tag_verilog
  /\ \E m \in ModuleSites(f_out.cleaned) : m.name # f_in.circuit_name
  /\ ~EndmodulePresent(f_out.cleaned)
  /\ RejectedWith("Verilog code must contain an endmodule statement")

(***************************************************************************)
(* Properties of the /generate request.                                    *)
(***************************************************************************)
\* how many times op has been invoked
CountOf(op) == Cardinality({k \in DOMAIN calls : calls[k] = op})

Invoked(op) == CountOf(op) > 0

\* the steps of compile_hdl and of the compilers it runs
CompilerOps == {"compile_hdl", "write_source", "analyze", "elaborate", "iverilog"}

ParseSucceeded == hdl_code # NoValue /\ hdl_code.ok

\* the handler has left its try block
Ended == pc \in {"finally", "done", "streamed"}

\* C1: compile_hdl never raises: whatever its steps do (creating the build
\* directory, writing the source file, a compiler stage failing, an unsupported
\* language), the call returns a CompilationResult, with success false when a
\* step failed.
C1_CompileHdlNeverRaises ==
  /\ compile_exit # "raised"
  /\ compile_exit = "returned" => compilation_result.success \in BOOLEAN

\* C2: once parse_hdl_code has succeeded, export_project is invoked exactly once
\* whatever the compilation outcome (success, failed result, exception), and when
\* the export succeeds the request ends by returning the archive, with
\* compilation_success reported as false for a failed compilation.
C2_ExportOnceAfterParse ==
  /\ CountOf("export_project") <= 1
  /\ (ParseSucceeded /\ (Ended \/ pc = "send_file")) => CountOf("export_project") = 1
  /\ (Ended /\ export_result # NoValue /\ export_result.success) =>
       /\ response # NoValue
       /\ response.kind = "file" /\ response.status = 200
       /\ response.file = export_result.file_path
       /\ response.compilation_success = "False" <=> ~compilation_result.success

\* a request in which compile_hdl raised and that ended by returning the archive
C2_Witness ==
  /\ pc = "done" /\ compile_exit = "raised"
  /\ CountOf("export_project") = 1
  /\ response.kind = "file" /\ response.compilation_success = "False"

\* C3: compile_hdl and export_project are invoked only after generate_code and
\* parse_hdl_code have both succeeded; if generate_code or parse_hdl_code raises,
\* the request ends with an error response, no compiler is invoked and no
\* archive is produced.
C3_CompileAndExportOnlyAfterParse ==
  /\ \A k \in DOMAIN calls :
       calls[k] \in CompilerOps \cup {"export_project"} =>
         /\ ParseSucceeded /\ ai_response # <<>>
         /\ \E i \in 1..(k-1) : calls[i] = "generate_code"
         /\ \E j \in 1..(k-1) : calls[j] = "parse_hdl_code"
  /\ (Ended /\ Invoked("generate_code") /\ ~ParseSucceeded) =>
       /\ response # NoValue /\ response.kind = "json" /\ response.status = 500
       /\ \A op \in CompilerOps \cup {"export_project"} : ~Invoked(op)
       /\ archive = <<>>
       /\ \A f \in files : f.dir # ExportDir(session_id)

\* a request that ended with an error response because parse_hdl_code raised
C3_Witness ==
  /\ pc = "done" /\ Invoked("parse_hdl_code") /\ ~ParseSucceeded
  /\ response.status = 500 /\ archive = <<>>

\* C4: for every HDLCode and every failed CompilationResult, an export_project
\* without archive I/O errors returns success and an archive that contains
\* <entity_name>.<ext> holding the source, project_info.json with compilation_success
\* false, and README.txt containing the error_message of the result.
C4_FailedCompilationArchive ==
  (export_result # NoValue /\ export_result.success /\ ~compilation_result.success) =>
    /\ \E k \in DOMAIN archive :
         /\ archive[k].name = hdl_code.entity_name \o dot \o hdl_code.file_extension
         /\ archive[k].text = hdl_code.content
    /\ \E k \in DOMAIN archive :
         /\ archive[k].name = <<"project_info.json">>
         /\ archive[k].json.compilation_success = FALSE
    /\ \E k \in DOMAIN archive :
         /\ archive[k].name = <<"README.txt">>
         /\ Contains(archive[k].text, compilation_result.error_message[1])

\* the stage runs that exceeded the timeout
TimedOut == {k \in DOMAIN runs : runs[k].outcome.kind = "timeout"}

\* the texts the compilers of the model write to standard error
CompilerTexts ==
  {o.stderr : o \in UNION {StageOutcomes(stage) : stage \in {"analyze", "elaborate", "iverilog"}}}

\* C13: when a compiler stage (analyze, elaborate, Verilog compile) exceeds the
\* timeout, compile_hdl returns a CompilationResult with success false whose
\* error_message contains the configured timeout and is none of the compilers'
\* error texts; no later stage is invoked and nothing is raised.
C13_TimeoutIsFailedResult ==
  \A k \in TimedOut :
    /\ k = Len(runs)
    /\ compile_exit = "returned"
    /\ ~compilation_result.success
    /\ compilation_result.error_message # NoneOpt
    /\ ToString(Timeout) \in Range(compilation_result.error_message[1])
    /\ compilation_result.error_message[1] \notin CompilerTexts

\* the elaboration timed out after an analysis that exited with status zero
C13_Witness ==
  /\ Len(runs) = 2 /\ runs[2].stage = "elaborate" /\ 2 \in TimedOut
  /\ runs[1].outcome.returncode = 0 /\ runs[1].outcome.kind = "exit"
  /\ pc = "done"

\* the stages launched so far, in order
StagesRun == [k \in DOMAIN runs |-> runs[k].stage]

IsPrefix(p, q) == Len(p) <= Len(q) /\ p = SubSeq(q, 1, Len(p))

ExitedZero(run) == run.outcome.kind = "exit" /\ run.outcome.returncode = 0

ExitedNonZero(run) == run.outcome.kind = "exit" /\ run.outcome.returncode # 0

\* C14: within a compile_hdl call the source file is written before any compiler
\* is launched; the compilers launched are a prefix of [analyze, elaborate] for
\* VHDL and of [compile] for Verilog, elaborate only after an analyze that exited
\* with status zero; a stage that exits non-zero ends the call in a failed result
\* whose error_message is that stage's standard-error text.
C14_StageOrder ==
  /\ \A k \in DOMAIN calls :
       calls[k] \in {"analyze", "elaborate", "iverilog"} =>
         /\ \E j \in 1..(k-1) : calls[j] = "write_source"
         /\ SourceFile(hdl_code, session_id) \in files
         /\ source_data = hdl_code.content
  /\ runs # <<>> =>
       /\ hdl_code.language \in {tag_vhdl, tag_verilog}
       /\ hdl_code.language = tag_vhdl => IsPrefix(StagesRun, <<"analyze", "elaborate">>)
       /\ hdl_code.language = tag_verilog => IsPrefix(StagesRun, <<"iverilog">>)
  /\ \A k \in DOMAIN runs :
       /\ (runs[k].stage = "elaborate") =>
            k > 1 /\ runs[k-1].stage = "analyze" /\ ExitedZero(runs[k-1])
       /\ ExitedNonZero(runs[k]) =>
            /\ k = Len(runs)
            /\ compile_exit = "returned"
            /\ ~compilation_result.success
            /\ compilation_result.error_message = Some(runs[k].outcome.stderr)

\* the elaboration exited non-zero after an analysis that exited with status zero
C14_Witness ==
  /\ StagesRun = <<"analyze", "elaborate">>
  /\ ExitedZero(runs[1]) /\ ExitedNonZero(runs[2])
  /\ pc = "done"

\* C15: in the CompilationResult compile_hdl returns, the standard-error text of
\* every stage that exited with status zero is in warnings, a sequence, and is not
\* the error_message, whether or not a later stage failed or timed out.
C15_WarningsOfPassedStagesKept ==
  compile_exit = "returned" =>
    \A k \in DOMAIN runs :
      (ExitedZero(runs[k]) /\ runs[k].outcome.stderr # <<>>) =>
        /\ compilation_result.warnings # NoneOpt
        /\ runs[k].outcome.stderr \in Range(compilation_result.warnings[1])
        /\ compilation_result.error_message # Some(runs[k].outcome.stderr)

\* the regular files of the build directory of the request
InBuildDir == {f \in files : f.dir = BuildDir(session_id)}

\* C16: a CompilationResult with success true lists in build_files exactly the
\* regular files of the build directory as the last stage left them, each once; a
\* CompilationResult with success false has an empty build_files.
C16_BuildFilesListed ==
  compilation_result # NoValue =>
    IF compilation_result.success
    THEN /\ Range(compilation_result.build_files) = InBuildDir
         /\ Len(compilation_result.build_files) = Cardinality(InBuildDir)
    ELSE compilation_result.build_files = <<>>

\* a successful VHDL compilation whose two stages left their artifacts next to the
\* source file
C16_Witness ==
  /\ compilation_result # NoValue /\ compilation_result.success
  /\ StagesRun = <<"analyze", "elaborate">>
  /\ Len(compilation_result.build_files) = 3
  /\ SourceFile(hdl_code, session_id) \in Range(compilation_result.build_files)

(***************************************************************************)
(* Properties of export_project.                                           *)
(***************************************************************************)
Exported == f_pc = "exported"

MemberNames(members) == {members[k].name : k \in DOMAIN members}

\* C17: the archive export_project writes holds build artifacts only for a result
\* with success true: for a failed result its members are at most the source
\* file, project_info.json and README.txt, also when build_files is not empty.
C17_ArtifactsOnlyOnSuccess ==
  (Exported /\ ~f_in.compilation_result.success) =>
    /\ MemberNames(f_out.members) \subseteq
         {f_in.hdl_code.entity_name \o dot \o f_in.hdl_code.file_extension,
          <<"project_info.json">>, <<"README.txt">>}
    /\ Len(f_out.members) <= 3

\* an export of a failed result whose build_files are on disk
C17_Witness ==
  /\ Exported /\ ~f_in.compilation_result.success
  /\ Len(f_in.compilation_result.build_files) = 2
  /\ Range(f_in.compilation_result.build_files) \subseteq f_in.onDisk
  /\ Len(f_out.members) = 3

\* C18: export_project never raises: an I/O failure while creating the export
\* directory or writing the archive is returned as a ProjectExport with success
\* false, an error_message, an empty file_path and file_size 0.
C18_ExportNeverRaises ==
  Exported =>
    /\ f_out.exit = "returned"
    /\ f_out.members = <<>> =>
         /\ ~f_out.result.success
         /\ f_out.result.error_message # NoneOpt
         /\ f_out.result.file_path = NoneOpt
         /\ f_out.result.file_size = 0

(***************************************************************************)
(* Properties of the response and of the session directory.                *)
(***************************************************************************)
\* the handler has returned the archive as its response
FileReturned == response # NoValue /\ response.kind = "file"

\* C19: in a successful /generate request the archive exists on disk until the
\* HTTP layer has streamed it to the client: the session directory is deleted
\* only after the streaming of the response body.
C19_ArchiveOutlivesStreaming ==
  FileReturned =>
    /\ pc \in {"finally", "done"} => response.file[1] \in files
    /\ \A k \in DOMAIN calls :
         calls[k] = "rmtree" => \E j \in 1..(k-1) : calls[j] = "stream_body"

(***************************************************************************)
(* Properties of concurrent requests.                                      *)
(***************************************************************************)
\* the archive of request r has been written
Archived(r) == c_req[r].pc \in {"send_file", "finally", "done"}

\* the names of the files request r has to deliver: its source file and, after a
\* successful compilation, what its compilers produced
Deliverables(r) ==
  {c_req[r].name \o dot \o (IF c_req[r].language = tag_vhdl THEN tag_vhdl ELSE ext_v)}
  \cup (IF ~c_req[r].success THEN {}
        ELSE IF c_req[r].language = tag_vhdl
        THEN {<<"w","o","r","k","-","o","b","j","9","3",".","c","f">>,
              <<"e","~">> \o c_req[r].name \o <<".","o">>}
        ELSE {c_req[r].name \o <<".","o","u","t">>})

\* C20: for two /generate requests running concurrently, also with the same
\* circuit name and language, no path one request writes, reads or deletes is a
\* path of the other, and the archive of each request holds its own files and
\* all of them: nothing written by the other request, nothing missing.
C20_NoCrossTalk ==
  /\ \A r1, r2 \in Requests : r1 # r2 => c_req[r1].touched \cap c_req[r2].touched = {}
  /\ \A r \in Requests :
       /\ \A m \in c_req[r].archive : m.by = r
       /\ Archived(r) => {m.name : m \in c_req[r].archive} = Deliverables(r)

\* two requests for the same circuit name and language, both compiled with
\* success: one has written its archive and cleaned up while the other is about
\* to export
C20_Witness ==
  /\ c_req[1].name = c_req[2].name /\ c_req[1].language = c_req[2].language
  /\ c_req[1].success /\ c_req[2].success
  /\ c_req[1].pc = "done" /\ c_req[2].pc = "export"
  /\ cleanup_temp_files
  /\ \A f \in c_disk.files : ~IsUnder(f.dir, SessionDir(c_req[1].sid))
  /\ c_req[1].archive # {} /\ c_req[2].touched # {}

\* a generation parameter that is present and is no number within [lo, hi]
ParamOutside(params, key, lo, hi) ==
  /\ key \in DOMAIN params
  /\ ~(params[key].t \in {"int", "float"} /\ params[key].n >= lo /\ params[key].n <= hi)

\* the request body is one that validation has to reject: validate_request_data
\* does not return valid, or a generation parameter is outside its range
DataFailsValidation ==
  /\ Truthy(data)
  /\ \/ validate_request_data(data).exit = "raised"
     \/ ~validate_request_data(data).valid
     \/ /\ "generation_params" \in DOMAIN data.d
        /\ data.d["generation_params"].t = "dict"
        /\ \/ ParamOutside(data.d["generation_params"].d, "temperature", 0, 2)
           \/ ParamOutside(data.d["generation_params"].d, "max_tokens", 1, 8000)
           \/ ParamOutside(data.d["generation_params"].d, "top_p", 0, 1)

\* C21: a /generate request whose data fails validation (a required field
\* missing, an invalid prompt, circuit name or provider configuration, a
\* generation parameter out of range) is answered with status 400, and no
\* provider call, no compiler invocation and no session directory precedes that
\* answer.
C21_InvalidRequestGets400 ==
  DataFailsValidation =>
    /\ calls = <<>>
    /\ dirs = {<<"work">>, <<"temp">>}
    /\ (Ended => response.status = 400)

\* a call returned a status dictionary: a boolean success and a message
IsStatus(r) ==
  /\ r.exit = "returned"
  /\ {"success", "message"} \subseteq DOMAIN r.value
  /\ r.value.success \in BOOLEAN
  /\ r.value.message \in Seq(STRING)

\* C22: a provider connection test never raises: for every provider type and
\* every configuration dictionary (unsupported type, missing keys, invalid
\* endpoint, network failure) ProviderFactory.test_provider_connection and
\* AzureOpenAIProvider.test_connection return a status dictionary with a
\* boolean success and a message.
C22_ConnectionTestNeverRaises ==
  f_pc = "tested" =>
    /\ IsStatus(f_out.factory)
    /\ (f_out.azure # NoValue => IsStatus(f_out.azure))

\* a network failure of a well-configured Azure provider, reported as a status
\* by the provider and by the factory
C22_Witness ==
  /\ f_pc = "tested"
  /\ f_in.net.kind = "RequestException"
  /\ f_in.provider_type = p_azure
  /\ f_in.config = AzureConfig(JStr(s_endpoint)).d
  /\ ~f_out.factory.value.success
  /\ f_out.azure # NoValue /\ ~f_out.azure.value.success

\* the connection test of the request returned a status with success false
ConnectionTestFailed ==
  /\ connection_test # NoValue
  /\ connection_test.exit = "returned"
  /\ ~connection_test.value.success

\* C23: a terminal failure response of /generate includes the raw diagnostic
\* text of the stage that failed: when the provider connection test returns
\* success false, the error of the response contains the message the test
\* returned.
C23_ConnectionFailureCarriesMessage ==
  (Ended /\ ConnectionTestFailed) =>
    /\ response.status >= 400
    /\ Contains(response.error, connection_test.value.message)

\* parse_hdl_code applied to the content it returned, with the same name
ParsedAgain == parse_hdl_code(f_out.content, f_in.circuit_name)

\* C24: rewriting is idempotent through the no-op case: for every successful
\* parse_hdl_code(text, B) with content c and a name B that validate_circuit_name
\* accepts, parse_hdl_code(c, B) succeeds too, performs no rewrite and returns
\* content equal to c.
C24_ParseIsIdempotent ==
  (Parsed /\ validate_circuit_name(JStr(f_in.circuit_name)).valid) =>
    /\ ParsedAgain.ok
    /\ ~ParsedAgain.rewritten
    /\ ParsedAgain.content = f_out.content

\* the text, letter case ignored, reads marker somewhere
HasMarker(text, marker) ==
  \E i \in 1..Len(text) :
     /\ i + Len(marker) - 1 <= Len(text)
     /\ \A k \in 1..Len(marker) : Lower(text[i + k - 1]) = marker[k]

Detected == f_pc = "detected"

\* C25 as stated: _detect_testbench returns true exactly when the lowercased
\* code contains one of the markers testbench, tb_, _tb, test_ for either
\* language, or additionally initial or $monitor for Verilog.
C25_MarkersForEitherLanguage ==
  Detected =>
    (f_out.has_testbench <=>
       \/ \E marker \in {m_testbench, m_tb_, m__tb, m_test_} : HasMarker(f_in.code, marker)
       \/ /\ f_in.language = tag_verilog
          /\ \E marker \in {m_initial, m_monitor} : HasMarker(f_in.code, marker))

\* C25, amended: _detect_testbench returns true exactly when the lowercased code
\* contains one of the markers testbench, tb_, _tb for either language, test_
\* for VHDL, or initial or $monitor for Verilog; test_ is no marker for Verilog.
C25_MarkersPerLanguage ==
  Detected =>
    (f_out.has_testbench <=>
       \/ \E marker \in {m_testbench, m_tb_, m__tb} : HasMarker(f_in.code, marker)
       \/ f_in.language = tag_vhdl /\ HasMarker(f_in.code, m_test_)
       \/ /\ f_in.language = tag_verilog
          /\ \E marker \in {m_initial, m_monitor} : HasMarker(f_in.code, marker))

\* Verilog code whose only marker is test_ is not taken for a testbench, and the
\* same code is when the language is VHDL
C25_Witness ==
  /\ Detected
  /\ HasMarker(f_in.code, m_test_)
  /\ \A marker \in {m_testbench, m_tb_, m__tb, m_initial, m_monitor} :
        ~HasMarker(f_in.code, marker)
  /\ f_in.language = tag_verilog
  /\ ~f_out.has_testbench

\* the text has a fenced block with one of the three tags, in any letter case:
\* an opening fence with the tag, only white space up to the end of its line,
\* and a closing fence on a later line
HasTaggedBlock(t) ==
  \E i \in 1..Len(t), tag \in BlockTags :
     /\ ExactAt(t, i, fence)
     /\ LitAt(t, i + Len(fence), tag)
     /\ \E n \in (i + Len(fence) + Len(tag))..Len(t) :
          /\ t[n] = "\n"
          /\ \A k \in (i + Len(fence) + Len(tag))..n : IsSpace(t[k])
          /\ ClosingFences(t, n) # {}

HasVhdlKeyword(t) ==
  \E marker \in {kw_entity, kw_architecture, kw_library_ieee} : HasMarker(t, marker)

HasVerilogKeyword(t) ==
  \E marker \in {kw_module, kw_endmodule, kw_always, kw_wire} : HasMarker(t, marker)

\* the language part of C26
KeywordClassification ==
  /\ HasVhdlKeyword(f_in.content) => f_out.language = tag_vhdl
  /\ f_out.language = tag_verilog <=>
       (~HasVhdlKeyword(f_in.content) /\ HasVerilogKeyword(f_in.content))

\* C26 as stated: for an input without a tagged fenced block the language is
\* found by keyword with VHDL first, and in both cases the entire input is the
\* code.
C26_KeywordsAndEntireInput ==
  (Extracted /\ ~HasTaggedBlock(f_in.content)) =>
    /\ KeywordClassification
    /\ (HasVhdlKeyword(f_in.content) \/ HasVerilogKeyword(f_in.content)) =>
         f_out.code = f_in.content

\* C26, amended: for an input without a tagged fenced block the language is
\* found by keyword with VHDL first: a text with entity, architecture or
\* library ieee in it, in any letter case, is vhdl even when it holds a Verilog
\* keyword too; verilog is returned only when no VHDL keyword occurs and one of
\* module, endmodule, always, wire does; in both cases the code is the entire
\* input without its leading and trailing white space.
C26_KeywordsAndStrippedInput ==
  (Extracted /\ ~HasTaggedBlock(f_in.content)) =>
    /\ KeywordClassification
    /\ (HasVhdlKeyword(f_in.content) \/ HasVerilogKeyword(f_in.content)) =>
         IsStripOf(f_out.code, f_in.content)

\* a text with a keyword of each language and white space around it: vhdl, and
\* the code is shorter than the input
C26_Witness ==
  /\ Extracted
  /\ ~HasTaggedBlock(f_in.content)
  /\ HasVhdlKeyword(f_in.content)
  /\ HasVerilogKeyword(f_in.content)
  /\ f_out.language = tag_vhdl
  /\ Len(f_out.code) < Len(f_in.content)

\* the extraction falls through to the default: no tagged fenced block, no VHDL
\* keyword and no Verilog keyword in the lowercased text
DefaultClassification(t) ==
  /\ ~HasTaggedBlock(t)
  /\ ~HasVhdlKeyword(t)
  /\ ~HasVerilogKeyword(t)

\* C27: whenever extraction falls through to the default classification,
\* parse_hdl_code raises in _validate_basic_syntax: a defaulted input never
\* yields an HDLCode.
C27_DefaultedInputRejected ==
  (f_pc = "parsed" /\ DefaultClassification(f_in.ai_response_content)) =>
    /\ ~f_out.ok
    /\ f_out.error \in {"VHDL code must contain an entity declaration",
                        "VHDL code must contain an architecture declaration"}

\* the directories and files on disk that the request created
CreatedDirs == dirs \ {<<"work">>, <<"temp">>}

\* C28: every file and directory created during a /generate request lies under
\* the session directory temp_directory/<session_id>, so that with
\* cleanup_temp_files enabled nothing created for the session remains on disk
\* once the request has ended, on the success path and on every error path.
C28_SessionLeavesNothingBehind ==
  /\ \A d \in CreatedDirs : IsUnder(d, SessionDir(session_id))
  /\ \A f \in files : IsUnder(f.dir, SessionDir(session_id))
  /\ (pc \in {"done", "streamed"} /\ cleanup_temp_files) => (CreatedDirs = {} /\ files = {})

\* C29: in every archive export_project writes, after a successful or a failed
\* compilation, member names are basenames without directory components and no
\* two members have the same name: the source file, each build artifact,
\* project_info.json and README.txt each appear exactly once.
C29_ArchiveMembersUnique ==
  /\ \A i, j \in DOMAIN archive : archive[i].name = archive[j].name => i = j
  /\ \A k \in DOMAIN archive : \A c \in DOMAIN archive[k].name : archive[k].name[c] # "/"

\* C30: for every circuit_name that validate_circuit_name accepts, the name
\* /generate uses as entity_name, sanitize_circuit_name(circuit_name), is
\* accepted as well: it is not empty, starts with a letter or an underscore,
\* and is not a reserved HDL keyword in any letter case.
C30_SanitizedNameAccepted ==
  (f_pc = "sanitized" /\ f_out.validation.valid) =>
    /\ f_out.entity_name # <<>>
    /\ f_out.entity_name[1] \in AsciiLetters \cup {"_"}
    /\ [k \in DOMAIN f_out.entity_name |-> Lower(f_out.entity_name[k])] \notin reserved_keywords

====
